---------------------------- MODULE Spec2Model ----------------------------
(***************************************************************************)
(* A model of postGenarator.py: the submission repository                  *)
(* (CSVSubmissionRepository), the download service (ImageDownloadService), *)
(* the template registry (TemplateManager), the layout (de)serialisation   *)
(* (TemplateLayout.to_dict / from_dict), the batch orchestrator            *)
(* (PostGenerationService.generate), the renderer's text helpers           *)
(* (_wrap_text, _draw_text), the font cache (FontProvider), the output     *)
(* file name, Orientation.from_size and the window's worker threads        *)
(* (SnapshotApp._start_generation).                                        *)
(*                                                                         *)
(* Text is a tuple of one-character strings, so that str.strip and         *)
(* str.split are computed character by character.  Python's None is the    *)
(* tuple None below where the other values are tuples, and the string      *)
(* "None" where they are strings.                                          *)
(***************************************************************************)
EXTENDS Integers, Sequences, FiniteSets, TLC

VARIABLES
    \* ---- CSVSubmissionRepository.read_submissions
    csv_file,        \* the file at csv_path: NoFile, or its header and rows
    _header_map,     \* self._header_map: alias -> raw header
    rs_pc,           \* position in read_submissions
    rows_read,       \* rows the DictReader has yielded so far
    sequence,        \* the local counter of read_submissions
    photos,          \* the local list of read_submissions
    rs_error,        \* the exception read_submissions raised, if any
    \* ---- ImageDownloadService.download
    session,         \* self.session: the responses its server may give to a GET
    dl_pc,           \* position in download
    dl_url,          \* the url argument
    destination_ok,  \* whether output_dir can be reached or created during this call
    dl_requests,     \* the GET requests sent through self.session, in order
    dl_responses,    \* the responses received, in order
    dl_response,     \* the local variable response
    dl_file_id,      \* the local variable file_id
    dl_result,       \* the path returned, NoPath before
    dl_body,         \* what was written to the target file
    dl_error,        \* the exception download raised, if any
    \* ---- TemplateManager
    _layouts,        \* self._layouts: orientation -> layout
    _sources,        \* self._sources: orientation -> source path or None
    tm_calls,        \* the set_layout calls made so far, as <<layout, source>>
    \* ---- TemplateLayout.to_dict / from_dict
    rt_pc,           \* position in the round trip
    rt_layout,       \* the layout serialised
    rt_data,         \* the dictionary to_dict returned
    rt_loaded,       \* the layout from_dict returned
    \* ---- PostGenerationService.generate
    gen_pc,          \* position in generate
    gen_photos,      \* the photos argument (its entries are mutated)
    has_callback,    \* whether progress_callback was given
    index,           \* the loop counter
    layout,          \* the local variable layout
    results,         \* the local list results
    progress,        \* the messages sent to progress_callback, in order
    render_calls,    \* the sequence numbers of the photos handed to renderer.render
    gen_error,       \* the exception generate raised, if any
    \* ---- TemplateRenderer._wrap_text
    wt_pc,           \* position in _wrap_text
    wt_text,         \* the text argument
    max_width,       \* the max_width argument
    words,           \* the local list words
    wt_next,         \* the position in words of the next loop iteration
    current,         \* the local list current
    lines,           \* the local list lines, and the value returned
    \* ---- TemplateRenderer._draw_text (its loop over the wrapped lines)
    dt_pc,           \* position in _draw_text
    dt_field,        \* rect.y, rect.height and style.line_spacing of the field
    dt_heights,      \* the height draw.textsize gives for each wrapped line
    dt_next,         \* the position of the next line of the loop
    dt_y,            \* the local variable y
    dt_drawn,        \* the lines handed to draw.text, as top and bottom edge
    \* ---- FontProvider
    _cache,          \* self._cache: key -> font instance
    fp_loads,        \* the keys _load was called for, in order
    fp_gets,         \* the get calls so far, as key and instance returned
    \* ---- one evaluation of a function (filename_slug, from_size)
    fn_pc,           \* "call" before, "returned" after
    fn_args,         \* the arguments
    fn_value,        \* the value returned
    \* ---- SnapshotApp._start_generation and its worker threads
    app_ready,       \* csv path chosen and both layouts registered
    app_threads,     \* the worker threads started so far: position and photos left
    app_status       \* the messages handed to _on_generation_finished, in order

csvVars == <<csv_file, _header_map, rs_pc, rows_read, sequence, photos, rs_error>>

dlVars == <<session, dl_pc, dl_url, destination_ok, dl_requests, dl_responses, dl_response,
           dl_file_id, dl_result, dl_body, dl_error>>

tmVars == <<_layouts, _sources, tm_calls>>

rtVars == <<rt_pc, rt_layout, rt_data, rt_loaded>>

genVars == <<gen_pc, gen_photos, has_callback, index, layout, results, progress,
            render_calls, gen_error>>

wrapVars == <<wt_pc, wt_text, max_width, words, wt_next, current, lines>>

drawVars == <<dt_pc, dt_field, dt_heights, dt_next, dt_y, dt_drawn>>

fontVars == <<_cache, fp_loads, fp_gets>>

fnVars == <<fn_pc, fn_args, fn_value>>

appVars == <<app_ready, app_threads, app_status>>

vars == <<csvVars, dlVars, tmVars, rtVars, genVars, wrapVars, drawVars, fontVars, fnVars,
         appVars>>

\* what an action of one component leaves alone
\* the renderer's helpers, the function evaluations and the window
toolVars == <<wrapVars, drawVars, fontVars, fnVars, appVars>>

\* the five components of the batch pipeline
pipelineVars == <<csvVars, dlVars, tmVars, rtVars, genVars>>

notCsvVars == <<dlVars, tmVars, rtVars, genVars, toolVars>>

notDlVars == <<csvVars, tmVars, rtVars, genVars, toolVars>>

notTmVars == <<csvVars, dlVars, rtVars, genVars, toolVars>>

notRtVars == <<csvVars, dlVars, tmVars, genVars, toolVars>>

----------------------------------------------------------------------------
(* Bounds of the model *)

\* rows of a CSV file
MaxRows == 2

----------------------------------------------------------------------------
(* General helpers *)

None == <<"<None>">>

Range(s) == {s[i] : i \in DOMAIN s}

SetMin(S) == CHOOSE x \in S : \A y \in S : x <= y

SetMax(S) == CHOOSE x \in S : \A y \in S : x >= y

\* all sequences over S of length at most n
SeqsUpTo(S, n) == UNION {[1..k -> S] : k \in 0..n}

\* the subsequences of s (elements kept in order)
RECURSIVE SubSeqs(_)
SubSeqs(s) ==
    IF s = <<>> THEN {<<>>}
    ELSE LET rest == SubSeqs(Tail(s))
         IN  rest \cup {<<Head(s)>> \o r : r \in rest}

\* characters str.strip() removes
Whitespace == {" "}

\* str.strip()
strip(s) ==
    LET keep == {i \in DOMAIN s : s[i] \notin Whitespace}
    IN  IF keep = {} THEN <<>> ELSE SubSeq(s, SetMin(keep), SetMax(keep))

\* str.split(sep) of a non-empty separator
RECURSIVE split(_, _)
split(s, sep) ==
    LET at == {i \in DOMAIN s : s[i] = sep}
    IN  IF at = {} THEN <<s>>
        ELSE <<SubSeq(s, 1, SetMin(at) - 1)>>
                 \o split(SubSeq(s, SetMin(at) + 1, Len(s)), sep)

----------------------------------------------------------------------------
(* CSVSubmissionRepository *)

REQUIRED_KEYS ==
    [k \in {"full name", "theme name", "description about your photograph",
            "submit your view (photo upload)"} |->
        CASE k = "full name" -> "participant_name"
          [] k = "theme name" -> "theme"
          [] k = "description about your photograph" -> "description"
          [] k = "submit your view (photo upload)" -> "photo_links"]

\* the raw headers a file may carry, in column order
HeaderPool ==
    <<"Timestamp", "Full Name", "Theme  Name",
      " DESCRIPTION ABOUT YOUR PHOTOGRAPH", "Submit your view (Photo Upload)">>

\* re.sub(r"\s+", " ", value.lower()).strip(), on the headers of HeaderPool
_normalize_key(value) ==
    CASE value = "Timestamp" -> "timestamp"
      [] value = "Full Name" -> "full name"
      [] value = "Theme  Name" -> "theme name"
      [] value = " DESCRIPTION ABOUT YOUR PHOTOGRAPH" -> "description about your photograph"
      [] value = "Submit your view (Photo Upload)" -> "submit your view (photo upload)"

\* sorted(): the rank of a label in string order
LabelRank(label) ==
    CASE label = "description about your photograph" -> 1
      [] label = "full name" -> 2
      [] label = "submit your view (photo upload)" -> 3
      [] label = "theme name" -> 4

\* sorted(missing)
RECURSIVE SortedLabels(_)
SortedLabels(S) ==
    IF S = {} THEN <<>>
    ELSE LET first == CHOOSE l \in S : \A m \in S : LabelRank(l) <= LabelRank(m)
         IN  <<first>> \o SortedLabels(S \ {first})

\* the loop of _prepare_header_map: a later header of the same key overwrites
HeaderMapOf(headers) ==
    LET hits(alias) == {i \in DOMAIN headers :
                          /\ _normalize_key(headers[i]) \in DOMAIN REQUIRED_KEYS
                          /\ REQUIRED_KEYS[_normalize_key(headers[i])] = alias}
        found == {a \in Range(REQUIRED_KEYS) : hits(a) # {}}
    IN  [a \in found |-> headers[SetMax(hits(a))]]

\* a validation that reports one missing column only
MissingLabels_first(map) ==
    LET all == {l \in DOMAIN REQUIRED_KEYS : REQUIRED_KEYS[l] \notin DOMAIN map}
    IN  IF all = {} THEN {} ELSE {CHOOSE l \in all : \A m \in all : LabelRank(l) <= LabelRank(m)}

\* missing = [label for label, alias in REQUIRED_KEYS.items() if alias not in map]
MissingLabels(map) == {l \in DOMAIN REQUIRED_KEYS : REQUIRED_KEYS[l] \notin DOMAIN map}

\* (row.get(header) or "").strip() for every alias; None when name or theme is empty
_map_row(row, map) ==
    LET cell(alias) == IF row[map[alias]] = None THEN <<>> ELSE row[map[alias]]
        mapped == [alias \in DOMAIN map |-> strip(cell(alias))]
    IN  IF mapped["participant_name"] = <<>> \/ mapped["theme"] = <<>>
        THEN None
        ELSE mapped

\* a split that keeps the empty chunks
_split_links_unfiltered(value) ==
    IF value = <<>> THEN <<>>
    ELSE LET parts == split(value, ",")
         IN  [i \in DOMAIN parts |-> strip(parts[i])]

_split_links(value) ==
    IF value = <<>> THEN <<>>
    ELSE LET parts == split(value, ",")
             chunks == [i \in DOMAIN parts |-> strip(parts[i])]
         IN  SelectSeq(chunks, LAMBDA chunk : chunk # <<>>)

NoPath == <<>>

ParticipantPhoto(seq, row_index, entry, link) ==
    [sequence |-> seq, submission_index |-> row_index,
     participant_name |-> entry["participant_name"], theme |-> entry["theme"],
     description |-> entry["description"], url |-> link,
     local_path |-> NoPath, orientation |-> "None"]

\* the photos one row appends, numbered from seq
RowPhotos(row, map, row_index, seq) ==
    LET entry == _map_row(row, map)
        links == IF entry = None THEN <<>> ELSE _split_links(entry["photo_links"])
    IN  [k \in DOMAIN links |-> ParticipantPhoto(seq + k - 1, row_index, entry, links[k])]

\* ---- the files read

NoFile == [fieldnames |-> <<>>, rows |-> <<>>, exists |-> FALSE]

NameCells == {<<>>, <<" ">>, <<" ", "n", " ">>}

ThemeCells == {<<>>, <<" ">>, <<"t">>}

LinkCells ==
    {None, <<>>, <<" ", " ">>, <<" ", ",", " ">>, <<"u">>, <<"u", ",", "v">>,
     <<" ", "u", " ", ",", ",", " ", "v", " ", "w", ",", "x">>}

\* a row of the table, by column
RowOf(n, t, l) ==
    [h \in Range(HeaderPool) |->
        CASE h = "Full Name" -> n
          [] h = "Theme  Name" -> t
          [] h = "Submit your view (Photo Upload)" -> l
          [] h = " DESCRIPTION ABOUT YOUR PHOTOGRAPH" -> <<"d", " ">>
          [] OTHER -> <<"0">>]

TableRows ==
    {RowOf(<<" ", "n", " ">>, <<"t">>, l) : l \in LinkCells}
        \cup {RowOf(n, <<"t">>, l) : n \in NameCells \ {<<" ", "n", " ">>},
                                      l \in {<<"u", ",", "v">>}}
        \cup {RowOf(<<" ", "n", " ">>, t, l) : t \in ThemeCells \ {<<"t">>},
                                                l \in {<<"u">>}}
        \cup {RowOf(<<>>, <<" ">>, <<"u">>)}

\* csv.DictReader: a row is a dict over the file's own columns
Restrict(row, headers) == [h \in Range(headers) |-> row[h]]

CsvFiles ==
    {NoFile} \cup
    {[fieldnames |-> f, rows |-> [i \in DOMAIN rs |-> Restrict(rs[i], f)], exists |-> TRUE] :
        f \in SubSeqs(HeaderPool), rs \in SeqsUpTo(TableRows, MaxRows)}

InitCsv ==
    /\ csv_file \in CsvFiles
    /\ _header_map = <<>>
    /\ rs_pc = "start"
    /\ rows_read = 0
    /\ sequence = 0
    /\ photos = <<>>
    /\ rs_error = <<>>

\* no read_submissions call in progress
IdleCsv ==
    /\ csv_file = NoFile
    /\ _header_map = <<>>
    /\ rs_pc = "idle"
    /\ rows_read = 0
    /\ sequence = 0
    /\ photos = <<>>
    /\ rs_error = <<>>

\* lines 197-199: the path does not exist
ReadMissingFile ==
    /\ rs_pc = "start"
    /\ ~csv_file.exists
    /\ rs_pc' = "raised"
    /\ rs_error' = <<"FileNotFoundError">>
    /\ UNCHANGED <<csv_file, _header_map, rows_read, sequence, photos>>
    /\ UNCHANGED notCsvVars

\* lines 201-205: open, read the header, _prepare_header_map, sequence = 1
PrepareHeader ==
    /\ rs_pc = "start"
    /\ csv_file.exists
    /\ LET map == HeaderMapOf(csv_file.fieldnames)
           missing == MissingLabels(map)
       IN  /\ _header_map' = map
           /\ IF missing # {}
              THEN /\ rs_pc' = "raised"
                   /\ rs_error' = <<"ValueError">> \o SortedLabels(missing)
                   /\ UNCHANGED <<sequence, photos>>
              ELSE /\ rs_pc' = "rows"
                   /\ rs_error' = <<>>
                   /\ sequence' = 1
                   /\ photos' = <<>>
    /\ UNCHANGED <<csv_file, rows_read>>
    /\ UNCHANGED notCsvVars

\* a loop that numbers rows, not photos: a skipped row consumes a number
ReadRow_counts_rows ==
    /\ rs_pc = "rows"
    /\ rows_read < Len(csv_file.rows)
    /\ LET submission_index == rows_read + 1
           new == RowPhotos(csv_file.rows[submission_index], _header_map,
                            submission_index, sequence)
       IN  /\ photos' = photos \o new
           /\ sequence' = sequence + (IF new = <<>> THEN 1 ELSE Len(new))
           /\ rows_read' = submission_index
    /\ UNCHANGED <<csv_file, _header_map, rs_pc, rs_error>>
    /\ UNCHANGED notCsvVars

\* lines 206-224: one iteration of the loop over the reader
ReadRow ==
    /\ rs_pc = "rows"
    /\ rows_read < Len(csv_file.rows)
    /\ LET submission_index == rows_read + 1
           new == RowPhotos(csv_file.rows[submission_index], _header_map,
                            submission_index, sequence)
       IN  /\ photos' = photos \o new
           /\ sequence' = sequence + Len(new)
           /\ rows_read' = submission_index
    /\ UNCHANGED <<csv_file, _header_map, rs_pc, rs_error>>
    /\ UNCHANGED notCsvVars

\* line 225
ReturnPhotos ==
    /\ rs_pc = "rows"
    /\ rows_read = Len(csv_file.rows)
    /\ rs_pc' = "returned"
    /\ UNCHANGED <<csv_file, _header_map, rows_read, sequence, photos, rs_error>>
    /\ UNCHANGED notCsvVars




----------------------------------------------------------------------------
(* ImageDownloadService *)

\* None where the other values are strings
NoneStr == "<None>"

DRIVE_HOST == "drive.google.com"

\* runs of ten or more characters of [a-zA-Z0-9_-], and shorter ones
LongIds == {"1AbCdEfGhIjK", "0Bxyz_-_98765"}

ShortIds == {"abc123"}

\* A url is the tuple of its parts; an id part stands for its characters.
EmptyUrl == <<>>

GenericUrl == <<"https://", "example.com", "/photos/a.jpg">>

DriveUrls ==
    {<<"https://", DRIVE_HOST, "/open?", "id=", "1AbCdEfGhIjK">>,
     <<"https://", DRIVE_HOST, "/file", "/d/", "0Bxyz_-_98765", "/view">>,
     <<"https://", DRIVE_HOST, "/file", "/d/", "0Bxyz_-_98765", "/view?", "id=", "1AbCdEfGhIjK">>,
     <<"https://", DRIVE_HOST, "/file", "/d/", "abc123">>,
     <<"https://", DRIVE_HOST, "/drive/folders/", "1AbCdEfGhIjK">>}

Urls == {EmptyUrl, GenericUrl} \cup DriveUrls

\* re.search(prefix + r"([a-zA-Z0-9_-]{10,})", url): the first match's group
SearchId(prefix, url) ==
    LET at == {i \in 1..(Len(url) - Len(prefix)) :
                  /\ SubSeq(url, i, i + Len(prefix) - 1) = prefix
                  /\ url[i + Len(prefix)] \in LongIds}
    IN  IF at = {} THEN NoneStr ELSE url[SetMin(at) + Len(prefix)]

\* the first of the three patterns that matches decides
_extract_drive_id(url) ==
    IF SearchId(<<"id=">>, url) # NoneStr THEN SearchId(<<"id=">>, url)
    ELSE IF SearchId(<<"/d/">>, url) # NoneStr THEN SearchId(<<"/d/">>, url)
    ELSE SearchId(<<"/file", "/d/">>, url)

\* key.startswith("download_warning")
IsWarningKey(key) == key \in {"download_warning", "download_warning_13058876669334088843"}

CookieJars ==
    {<<>>,
     <<[key |-> "NID", value |-> "511"]>>,
     <<[key |-> "download_warning_13058876669334088843", value |-> "t0k3n"]>>,
     <<[key |-> "NID", value |-> "511"],
       [key |-> "download_warning_13058876669334088843", value |-> "t0k3n"]>>,
     <<[key |-> "download_warning", value |-> ""]>>,
     <<[key |-> "download_warning", value |-> ""],
       [key |-> "download_warning_13058876669334088843", value |-> "t0k3n"]>>}

\* a Content-Disposition header naming the file, or none
Dispositions == {NoneStr, "attachment; filename=\"IMG_1.png\""}

\* the responses of the session: success flag, cookies, Content-Disposition
Responses ==
    [ok : BOOLEAN, cookies : CookieJars, disposition : {NoneStr}]
        \cup [ok : {TRUE}, cookies : {<<>>}, disposition : Dispositions]

NoResponse == [ok |-> FALSE, cookies |-> <<>>, disposition |-> "<no response>"]

\* the first cookie whose key starts with download_warning gives the token
_drive_confirm_token(response) ==
    LET at == {i \in DOMAIN response.cookies : IsWarningKey(response.cookies[i].key)}
    IN  IF at = {} THEN NoneStr ELSE response.cookies[SetMin(at)].value

\* Python truth of an Optional[str]
Truthy(value) == value # NoneStr /\ value # ""

\* the content of a downloaded file, as PIL will see it
Bodies == {"landscape", "square", "portrait", "truncated", "garbage"}

\* the file name: from the header when it names one, else from the sanitized base
_resolve_filename(base, content_disposition) ==
    IF content_disposition # NoneStr
    THEN <<"IMG_1.png">>
    ELSE <<"stem">> \o base \o <<".jpg">>

\* output_dir / filename
PathIn(dir, filename) == <<dir>> \o filename

GetRequest(url, id, confirm) == [url |-> url, id |-> id, confirm |-> confirm]

\* the locals of download when no call is in progress
DownloadLocalsCleared ==
    /\ dl_pc' = "idle"
    /\ dl_url' = EmptyUrl
    /\ destination_ok' = TRUE
    /\ dl_requests' = <<>>
    /\ dl_responses' = <<>>
    /\ dl_response' = NoResponse
    /\ dl_file_id' = NoneStr
    /\ dl_result' = NoPath
    /\ dl_body' = "none"
    /\ dl_error' = <<>>
    /\ UNCHANGED session

IdleDownload ==
    /\ session = {}
    /\ dl_pc = "idle"
    /\ dl_url = EmptyUrl
    /\ destination_ok = TRUE
    /\ dl_requests = <<>>
    /\ dl_responses = <<>>
    /\ dl_response = NoResponse
    /\ dl_file_id = NoneStr
    /\ dl_result = NoPath
    /\ dl_body = "none"
    /\ dl_error = <<>>

\* download is called with url; the directory is reachable or not
CallDownload(url) ==
    /\ dl_pc' = "call"
    /\ dl_url' = url
    /\ destination_ok' \in BOOLEAN
    /\ dl_requests' = <<>>
    /\ dl_responses' = <<>>
    /\ dl_response' = NoResponse
    /\ dl_file_id' = NoneStr
    /\ dl_result' = NoPath
    /\ dl_body' = "none"
    /\ dl_error' = <<>>
    /\ UNCHANGED session

DlRaise(kind, message) ==
    /\ dl_pc' = "raised"
    /\ dl_error' = <<kind, message>>

\* lines 271-272
download_empty_url ==
    /\ dl_pc = "call"
    /\ dl_url = EmptyUrl
    /\ DlRaise("PhotoDownloadError", "Empty URL provided")
    /\ UNCHANGED <<session, dl_url, destination_ok, dl_requests, dl_responses, dl_response,
                   dl_file_id, dl_result, dl_body>>
    /\ UNCHANGED notDlVars

\* lines 274-277: mkdir succeeds or raises OSError; then the host decides the path
download_dispatch ==
    /\ dl_pc = "call"
    /\ dl_url # EmptyUrl
    /\ IF ~destination_ok
       THEN DlRaise("OSError", "mkdir")
       ELSE /\ dl_pc' = IF \E i \in DOMAIN dl_url : dl_url[i] = DRIVE_HOST
                        THEN "drive" ELSE "generic"
            /\ UNCHANGED dl_error
    /\ UNCHANGED <<session, dl_url, destination_ok, dl_requests, dl_responses, dl_response,
                   dl_file_id, dl_result, dl_body>>
    /\ UNCHANGED notDlVars

\* lines 280-288
_download_generic ==
    /\ dl_pc = "generic"
    /\ \E response \in session :
          /\ dl_requests' = Append(dl_requests, GetRequest(dl_url, NoneStr, NoneStr))
          /\ dl_responses' = Append(dl_responses, response)
          /\ dl_response' = response
          /\ IF ~response.ok
             THEN /\ DlRaise("PhotoDownloadError", "Unable to download image")
                  /\ UNCHANGED <<dl_result, dl_body>>
             ELSE /\ dl_pc' = "returned"
                  /\ dl_result' = PathIn("cache_dir",
                                         _resolve_filename(<<"url">>, response.disposition))
                  /\ dl_body' \in Bodies
                  /\ UNCHANGED dl_error
    /\ UNCHANGED <<session, dl_url, destination_ok, dl_file_id>>
    /\ UNCHANGED notDlVars

DownloadUrl == <<"https://drive.google.com/uc?export=download">>

\* lines 291-296: the id, then the first GET
_download_from_drive_first ==
    /\ dl_pc = "drive"
    /\ dl_file_id' = _extract_drive_id(dl_url)
    /\ IF dl_file_id' = NoneStr
       THEN /\ DlRaise("PhotoDownloadError", "Unable to parse Google Drive id")
            /\ UNCHANGED <<dl_requests, dl_responses, dl_response>>
       ELSE /\ \E response \in session :
                  /\ dl_response' = response
                  /\ dl_responses' = Append(dl_responses, response)
            /\ dl_requests' = Append(dl_requests, GetRequest(DownloadUrl, dl_file_id', NoneStr))
            /\ dl_pc' = "drive_token"
            /\ UNCHANGED dl_error
    /\ UNCHANGED <<session, dl_url, destination_ok, dl_result, dl_body>>
    /\ UNCHANGED notDlVars

\* lines 297-300: with a token, the GET is replayed with confirm
_download_from_drive_confirm ==
    /\ dl_pc = "drive_token"
    /\ LET token == _drive_confirm_token(dl_response)
       IN  IF Truthy(token)
           THEN /\ \E response \in session :
                      /\ dl_response' = response
                      /\ dl_responses' = Append(dl_responses, response)
                /\ dl_requests' = Append(dl_requests, GetRequest(DownloadUrl, dl_file_id, token))
           ELSE UNCHANGED <<dl_requests, dl_responses, dl_response>>
    /\ dl_pc' = "drive_final"
    /\ UNCHANGED <<session, dl_url, destination_ok, dl_file_id, dl_result, dl_body, dl_error>>
    /\ UNCHANGED notDlVars

\* lines 301-309
_download_from_drive_finish ==
    /\ dl_pc = "drive_final"
    /\ IF ~dl_response.ok
       THEN /\ DlRaise("PhotoDownloadError", "Drive download failed")
            /\ UNCHANGED <<dl_result, dl_body>>
       ELSE /\ dl_pc' = "returned"
            /\ dl_result' = PathIn("cache_dir",
                                   _resolve_filename(<<dl_file_id>>, dl_response.disposition))
            /\ dl_body' \in Bodies
            /\ UNCHANGED dl_error
    /\ UNCHANGED <<session, dl_url, destination_ok, dl_requests, dl_responses, dl_response,
                   dl_file_id>>
    /\ UNCHANGED notDlVars

----------------------------------------------------------------------------
(* Orientation, Rectangle, TextStyle, TextField, TemplateLayout *)

\* the members of the enum, and the member of a value
Orientations == {"LANDSCAPE", "PORTRAIT"}

OrientationValue(member) == IF member = "LANDSCAPE" THEN "landscape" ELSE "portrait"

OrientationOf(value) == IF value = "landscape" THEN "LANDSCAPE" ELSE "PORTRAIT"

\* a classification that takes a square for a portrait
from_size_strict(width, height) == IF width > height THEN "LANDSCAPE" ELSE "PORTRAIT"

from_size(width, height) == IF width >= height THEN "LANDSCAPE" ELSE "PORTRAIT"

\* A path is the tuple of its components, "/" first when it is absolute; the
\* empty tuple is the empty string.
Home == <<"/", "home", "user">>

Cwd == <<"/", "work">>

\* Path.expanduser()
expanduser(path) == IF path # <<>> /\ Head(path) = "~" THEN Home \o Tail(path) ELSE path

\* Path.resolve() on a file system without symbolic links: made absolute from
\* the working directory, "." dropped, ".." stepping up (never above the root)
RECURSIVE Normalized(_, _)
Normalized(done, rest) ==
    IF rest = <<>> THEN done
    ELSE IF Head(rest) = "." THEN Normalized(done, Tail(rest))
    ELSE IF Head(rest) = ".."
         THEN Normalized(IF Len(done) > 1 THEN SubSeq(done, 1, Len(done) - 1) ELSE done,
                         Tail(rest))
    ELSE Normalized(Append(done, Head(rest)), Tail(rest))

resolve(path) ==
    LET absolute == IF path # <<>> /\ Head(path) = "/" THEN path ELSE Cwd \o path
    IN  Normalized(<<"/">>, Tail(absolute))

_resource_path(value) == IF value # <<>> THEN resolve(expanduser(value)) ELSE value

Rectangle_to_dict(rect) ==
    [x |-> rect.x, y |-> rect.y, width |-> rect.width, height |-> rect.height]

Rectangle_from_dict(data) ==
    [x |-> data.x, y |-> data.y, width |-> data.width, height |-> data.height]

TextStyle_to_dict(style) ==
    [font_path |-> style.font_path, font_size |-> style.font_size, fill |-> style.fill,
     align |-> style.align, line_spacing |-> style.line_spacing]

TextStyle_from_dict(data) ==
    [font_path |-> data.font_path, font_size |-> data.font_size, fill |-> data.fill,
     align |-> data.align, line_spacing |-> data.line_spacing]

TextField_to_dict(field) ==
    [rect |-> Rectangle_to_dict(field.rect), style |-> TextStyle_to_dict(field.style),
     prefix |-> field.prefix, uppercase |-> field.uppercase]

TextField_from_dict(data) ==
    [rect |-> Rectangle_from_dict(data.rect), style |-> TextStyle_from_dict(data.style),
     prefix |-> data.prefix, uppercase |-> data.uppercase]

\* None where the other values are records
NoneRec == [none |-> TRUE]

to_dict(self) ==
    [orientation |-> OrientationValue(self.orientation),
     template_path |-> self.template_path,
     photo_area |-> Rectangle_to_dict(self.photo_area),
     clicked_by |-> TextField_to_dict(self.clicked_by),
     title |-> TextField_to_dict(self.title),
     description |-> TextField_to_dict(self.description),
     badge |-> IF self.badge # NoneRec THEN TextField_to_dict(self.badge) ELSE NoneRec,
     badge_format |-> self.badge_format]

from_dict(data) ==
    [orientation |-> OrientationOf(data.orientation),
     template_path |-> _resource_path(data.template_path),
     photo_area |-> Rectangle_from_dict(data.photo_area),
     clicked_by |-> TextField_from_dict(data.clicked_by),
     title |-> TextField_from_dict(data.title),
     description |-> TextField_from_dict(data.description),
     badge |-> IF data.badge # NoneRec THEN TextField_from_dict(data.badge) ELSE NoneRec,
     badge_format |-> data.badge_format]

\* ---- the layouts serialised

DefaultStyle ==
    [font_path |-> "", font_size |-> 42, fill |-> "#000000", align |-> "left",
     line_spacing |-> 6]

Field(x, y, width, height, style, prefix, uppercase) ==
    [rect |-> [x |-> x, y |-> y, width |-> width, height |-> height], style |-> style,
     prefix |-> prefix, uppercase |-> uppercase]

TemplatePaths ==
    {<<>>,
     <<"/", "srv", "landscape.png">>,
     <<"templates", "landscape.png">>,
     <<".", "landscape.png">>,
     <<"~", "templates", "landscape.png">>,
     <<"/", "srv", "old", "..", "landscape.png">>}

BadgeFields ==
    {NoneRec,
     Field(10, 10, 80, 40, [DefaultStyle EXCEPT !.align = "center", !.font_size = 30], "#", FALSE)}

TemplateLayout(orientation, template_path, uppercase, badge, badge_format) ==
    [orientation |-> orientation,
     template_path |-> template_path,
     photo_area |-> [x |-> 0, y |-> 0, width |-> 100, height |-> 100],
     clicked_by |-> Field(0, 0, 100, 40, DefaultStyle, "Clicked by ", uppercase),
     title |-> Field(0, 50, 100, 40, [DefaultStyle EXCEPT !.font_path = "fonts/Bold.ttf"],
                     "", ~uppercase),
     description |-> Field(0, 100, 100, 200, [DefaultStyle EXCEPT !.align = "right"], "", FALSE),
     badge |-> badge,
     badge_format |-> badge_format]

Layouts ==
    {TemplateLayout(o, t, u, b, f) :
        o \in Orientations, t \in TemplatePaths, u \in BOOLEAN, b \in BadgeFields,
        f \in {"{0:02d}", ""}}

InitRoundTrip ==
    /\ rt_pc = "start"
    /\ rt_layout \in Layouts
    /\ rt_data = NoneRec
    /\ rt_loaded = NoneRec

IdleRoundTrip ==
    /\ rt_pc = "idle"
    /\ rt_layout = NoneRec
    /\ rt_data = NoneRec
    /\ rt_loaded = NoneRec

\* data = layout.to_dict()
SaveLayout ==
    /\ rt_pc = "start"
    /\ rt_data' = to_dict(rt_layout)
    /\ rt_pc' = "dumped"
    /\ UNCHANGED <<rt_layout, rt_loaded>>
    /\ UNCHANGED notRtVars

\* TemplateLayout.from_dict(data)
LoadLayout ==
    /\ rt_pc = "dumped"
    /\ rt_loaded' = from_dict(rt_data)
    /\ rt_pc' = "loaded"
    /\ UNCHANGED <<rt_layout, rt_data>>
    /\ UNCHANGED notRtVars

----------------------------------------------------------------------------
(* TemplateManager *)

\* set_layout calls in one run of the registry
MaxCalls == 3

\* the layouts and the source paths handed to set_layout
ManagedLayouts ==
    {TemplateLayout(o, t, FALSE, NoneRec, "{0:02d}") :
        o \in Orientations, t \in {<<>>, <<"/", "srv", "landscape.png">>}}

SourcePaths == {None, <<"/", "cfg", "a.json">>, <<"/", "cfg", "b.json">>}

InitTemplateManager ==
    /\ _layouts = <<>>
    /\ _sources = <<>>
    /\ tm_calls = <<>>

\* self._layouts[key] = value on a dict
DictSet(dict, key, value) ==
    [k \in DOMAIN dict \cup {key} |-> IF k = key THEN value ELSE dict[k]]

\* a registry that keeps the earlier source when none is given
set_layout_keeps_source(new_layout, source) ==
    /\ _layouts' = DictSet(_layouts, new_layout.orientation, new_layout)
    /\ _sources' = IF source # None \/ new_layout.orientation \notin DOMAIN _sources
                   THEN DictSet(_sources, new_layout.orientation, source)
                   ELSE _sources

\* lines 448-450; Path(source) of a path is that path
set_layout(new_layout, source) ==
    /\ _layouts' = DictSet(_layouts, new_layout.orientation, new_layout)
    /\ _sources' = DictSet(_sources, new_layout.orientation,
                           IF source # None THEN source ELSE None)

\* lines 452-455: the layout, or the ValueError
get_layout(orientation) ==
    IF orientation \notin DOMAIN _layouts
    THEN [raised |-> TRUE, error |-> <<"ValueError", "No template configured for",
                                       OrientationValue(orientation)>>,
          value |-> NoneRec]
    ELSE [raised |-> FALSE, error |-> <<>>, value |-> _layouts[orientation]]

\* lines 457-458: dict.get
get_source_path(orientation) ==
    IF orientation \in DOMAIN _sources THEN _sources[orientation] ELSE None

\* a caller registers a layout
SetLayout ==
    /\ Len(tm_calls) < MaxCalls
    /\ \E new_layout \in ManagedLayouts, source \in SourcePaths :
          /\ set_layout(new_layout, source)
          /\ tm_calls' = Append(tm_calls, <<new_layout, source>>)
    /\ UNCHANGED notTmVars

----------------------------------------------------------------------------
(* ParticipantPhoto.filename_slug *)

UpperCase ==
    <<"A", "B", "C", "D", "E", "F", "G", "H", "I", "J", "K", "L", "M",
      "N", "O", "P", "Q", "R", "S", "T", "U", "V", "W", "X", "Y", "Z">>

LowerCase ==
    <<"a", "b", "c", "d", "e", "f", "g", "h", "i", "j", "k", "l", "m",
      "n", "o", "p", "q", "r", "s", "t", "u", "v", "w", "x", "y", "z">>

DigitChars == <<"0", "1", "2", "3", "4", "5", "6", "7", "8", "9">>

\* [a-zA-Z0-9]
IsAlnum(c) == c \in Range(UpperCase) \cup Range(LowerCase) \cup Range(DigitChars)

\* str.lower(), one character
LowerChar(c) ==
    IF c \in Range(UpperCase)
    THEN LowerCase[CHOOSE i \in DOMAIN UpperCase : UpperCase[i] = c]
    ELSE c

\* a substitution that turns every other character into a hyphen of its own
RECURSIVE SubRuns_each(_, _)
SubRuns_each(s, in_run) ==
    IF s = <<>> THEN <<>>
    ELSE IF IsAlnum(Head(s)) THEN <<Head(s)>> \o SubRuns_each(Tail(s), FALSE)
    ELSE <<"-">> \o SubRuns_each(Tail(s), TRUE)

\* re.sub(r"[^a-zA-Z0-9]+", "-", s): every run of other characters becomes one hyphen
RECURSIVE SubRuns(_, _)
SubRuns(s, in_run) ==
    IF s = <<>> THEN <<>>
    ELSE IF IsAlnum(Head(s)) THEN <<Head(s)>> \o SubRuns(Tail(s), FALSE)
    ELSE IF in_run THEN SubRuns(Tail(s), TRUE)
    ELSE <<"-">> \o SubRuns(Tail(s), TRUE)

\* str.strip(chars)
StripChars(s, chars) ==
    LET keep == {i \in DOMAIN s : s[i] \notin chars}
    IN  IF keep = {} THEN <<>> ELSE SubSeq(s, SetMin(keep), SetMax(keep))

\* the length cap of a slug
SlugCap == 60

_slug(value) ==
    LET cleaned == StripChars(SubRuns(strip(value), FALSE), {"-", " "})
        lowered == [i \in DOMAIN cleaned |-> LowerChar(cleaned[i])]
    IN  IF cleaned # <<>>
        THEN SubSeq(lowered, 1, IF Len(lowered) < SlugCap THEN Len(lowered) ELSE SlugCap)
        ELSE <<"i", "t", "e", "m">>

\* the decimal digits of a natural number
RECURSIVE Decimal(_)
Decimal(n) ==
    IF n < 10 THEN <<DigitChars[n + 1]>>
    ELSE Decimal(n \div 10) \o <<DigitChars[(n % 10) + 1]>>

\* the width of the sequence number in a file name
PadWidth == 3

\* f"{n:03d}"
ZeroPadded(n) ==
    LET digits == Decimal(n)
    IN  [i \in 1..(IF Len(digits) < PadWidth THEN PadWidth - Len(digits) ELSE 0) |-> "0"]
            \o digits

filename_slug(photo) ==
    ZeroPadded(photo.sequence) \o <<"_">> \o _slug(photo.participant_name)
        \o <<"_">> \o _slug(photo.theme)

----------------------------------------------------------------------------
(* OrientationDetector, TemplateRenderer.render (its outcome) *)

\* img.size of a file PIL can open
ImageSize(body) ==
    CASE body = "landscape" -> [width |-> 4, height |-> 3]
      [] body = "square" -> [width |-> 3, height |-> 3]
      [] body = "portrait" -> [width |-> 3, height |-> 4]
      [] body = "truncated" -> [width |-> 3, height |-> 4]

\* lines 347-350: Image.open raises on a file that is no image
detect(body) ==
    IF body = "garbage"
    THEN [raised |-> TRUE, error |-> <<"UnidentifiedImageError", "cannot identify image file">>,
          value |-> "None"]
    ELSE [raised |-> FALSE, error |-> <<>>,
          value |-> from_size(ImageSize(body).width, ImageSize(body).height)]

\* lines 380-391, 156-161, 393-398: the exception render raises, or none.
\* template_exists is what Path.exists() answers for the template file.
render(a_layout, body, template_exists) ==
    IF a_layout.template_path = <<>>
    THEN <<"ValueError", "Template path is not set">>
    ELSE IF ~template_exists
    THEN <<"FileNotFoundError", "Template not found">>
    ELSE IF body = "truncated"
    THEN <<"OSError", "image file is truncated">>
    ELSE <<>>

----------------------------------------------------------------------------
(* PostGenerationService.generate *)

\* photos handed to one call of generate
MaxPhotos == 2

\* the urls of a batch
BatchUrls ==
    {EmptyUrl, GenericUrl,
     <<"https://", DRIVE_HOST, "/open?", "id=", "1AbCdEfGhIjK">>,
     <<"https://", DRIVE_HOST, "/drive/folders/", "1AbCdEfGhIjK">>}

\* the responses of the batch's session
BatchResponses ==
    {[ok |-> TRUE, cookies |-> <<>>, disposition |-> NoneStr],
     [ok |-> FALSE, cookies |-> <<>>, disposition |-> NoneStr],
     [ok |-> FALSE,
      cookies |-> <<[key |-> "download_warning_13058876669334088843", value |-> "t0k3n"]>>,
      disposition |-> NoneStr]}

\* the photos as read_submissions builds them, one per url
PhotoList(urls) ==
    [k \in DOMAIN urls |->
        ParticipantPhoto(k, k,
                         [participant_name |-> <<"A", "n", "n">>, theme |-> <<"S", "e", "a">>,
                          description |-> <<>>],
                         urls[k])]

\* the registry after a sequence of set_layout calls
RECURSIVE LayoutsAfter(_)
LayoutsAfter(calls) ==
    IF calls = <<>> THEN <<>>
    ELSE DictSet(LayoutsAfter(SubSeq(calls, 1, Len(calls) - 1)),
                 calls[Len(calls)][1].orientation, calls[Len(calls)][1])

RECURSIVE SourcesAfter(_)
SourcesAfter(calls) ==
    IF calls = <<>> THEN <<>>
    ELSE DictSet(SourcesAfter(SubSeq(calls, 1, Len(calls) - 1)),
                 calls[Len(calls)][1].orientation, calls[Len(calls)][2])

\* the registrations made before a batch
BatchRegistrations ==
    LET land == TemplateLayout("LANDSCAPE", <<"/", "srv", "landscape.png">>, FALSE, NoneRec,
                               "{0:02d}")
        port == TemplateLayout("PORTRAIT", <<"/", "srv", "landscape.png">>, FALSE, NoneRec,
                               "{0:02d}")
        unset == TemplateLayout("PORTRAIT", <<>>, FALSE, NoneRec, "{0:02d}")
    IN  {<<>>, <<<<land, None>>>>, <<<<land, None>>, <<port, None>>>>,
         <<<<land, None>>, <<unset, None>>>>}

InitGenerate ==
    /\ gen_pc = "start"
    /\ \E urls \in SeqsUpTo(BatchUrls, MaxPhotos) : gen_photos = PhotoList(urls)
    /\ has_callback \in BOOLEAN
    /\ index = 0
    /\ layout = NoneRec
    /\ results = <<>>
    /\ progress = <<>>
    /\ render_calls = <<>>
    /\ gen_error = <<>>

IdleGenerate ==
    /\ gen_pc = "idle"
    /\ gen_photos = <<>>
    /\ has_callback = FALSE
    /\ index = 0
    /\ layout = NoneRec
    /\ results = <<>>
    /\ progress = <<>>
    /\ render_calls = <<>>
    /\ gen_error = <<>>

\* if progress_callback: progress_callback(message)
Report(message) ==
    progress' = IF has_callback THEN Append(progress, message) ELSE progress

\* output_dir / f"{photo.filename_slug()}.png"
OutputPath(photo) == <<"output_dir">> \o filename_slug(photo) \o <<".", "p", "n", "g">>

\* lines 477-481: the two directories are made; mkdir may raise OSError
generate_begin ==
    /\ gen_pc = "start"
    /\ \E mkdir_ok \in BOOLEAN :
          IF mkdir_ok
          THEN /\ gen_pc' = "loop"
               /\ UNCHANGED gen_error
          ELSE /\ gen_pc' = "raised"
               /\ gen_error' = <<"OSError", "mkdir">>
    /\ results' = <<>>
    /\ UNCHANGED <<gen_photos, has_callback, index, layout, progress, render_calls>>
    /\ UNCHANGED <<csvVars, dlVars, tmVars, rtVars, toolVars>>

\* lines 482-486: the next photo; its download is called
generate_next_photo ==
    /\ gen_pc = "loop"
    /\ index < Len(gen_photos)
    /\ index' = index + 1
    /\ Report([kind |-> "Downloading", index |-> index', url |-> gen_photos[index'].url])
    /\ CallDownload(gen_photos[index'].url)
    /\ gen_pc' = "download"
    /\ UNCHANGED <<gen_photos, has_callback, layout, results, render_calls, gen_error>>
    /\ UNCHANGED <<csvVars, tmVars, rtVars, toolVars>>

\* a handler that records the cache directory as the path of the failed photo
generate_download_failed_marks ==
    /\ gen_pc = "download"
    /\ dl_pc = "raised"
    /\ Head(dl_error) = "PhotoDownloadError"
    /\ Report([kind |-> "Download failed", err |-> dl_error[2]])
    /\ gen_photos' = [gen_photos EXCEPT ![index].local_path = <<"cache_dir">>]
    /\ gen_pc' = "loop"
    /\ DownloadLocalsCleared
    /\ UNCHANGED <<has_callback, index, layout, results, render_calls, gen_error>>
    /\ UNCHANGED <<csvVars, tmVars, rtVars, toolVars>>

\* lines 487-490: a PhotoDownloadError is reported and the photo skipped
generate_download_failed ==
    /\ gen_pc = "download"
    /\ dl_pc = "raised"
    /\ Head(dl_error) = "PhotoDownloadError"
    /\ Report([kind |-> "Download failed", err |-> dl_error[2]])
    /\ gen_pc' = "loop"
    /\ DownloadLocalsCleared
    /\ UNCHANGED <<gen_photos, has_callback, index, layout, results, render_calls, gen_error>>
    /\ UNCHANGED <<csvVars, tmVars, rtVars, toolVars>>

\* line 486: any other exception of download leaves generate
generate_download_raises ==
    /\ gen_pc = "download"
    /\ dl_pc = "raised"
    /\ Head(dl_error) # "PhotoDownloadError"
    /\ gen_pc' = "raised"
    /\ gen_error' = dl_error
    /\ DownloadLocalsCleared
    /\ UNCHANGED <<gen_photos, has_callback, index, layout, results, progress, render_calls>>
    /\ UNCHANGED <<csvVars, tmVars, rtVars, toolVars>>

\* lines 491-492: local_path is recorded, then the orientation detected; an
\* exception of detect is caught by nothing
generate_detect ==
    /\ gen_pc = "download"
    /\ dl_pc = "returned"
    /\ LET found == detect(dl_body)
       IN  IF found.raised
           THEN /\ gen_photos' = [gen_photos EXCEPT ![index].local_path = dl_result]
                /\ gen_pc' = "raised"
                /\ gen_error' = found.error
           ELSE /\ gen_photos' = [gen_photos EXCEPT ![index].local_path = dl_result,
                                                    ![index].orientation = found.value]
                /\ gen_pc' = "lookup"
                /\ UNCHANGED gen_error
    /\ UNCHANGED dlVars
    /\ UNCHANGED <<has_callback, index, layout, results, progress, render_calls>>
    /\ UNCHANGED <<csvVars, tmVars, rtVars, toolVars>>

\* a lookup whose failure ends the batch
generate_get_layout_stops ==
    /\ gen_pc = "lookup"
    /\ LET found == get_layout(gen_photos[index].orientation)
       IN  IF found.raised
           THEN /\ Report([kind |-> "No template", err |-> found.error])
                /\ gen_pc' = "returned"
                /\ DownloadLocalsCleared
                /\ UNCHANGED layout
           ELSE /\ layout' = found.value
                /\ Report([kind |-> "Rendering", index |-> index,
                           orientation |-> OrientationValue(gen_photos[index].orientation)])
                /\ gen_pc' = "render"
                /\ UNCHANGED dlVars
    /\ UNCHANGED <<gen_photos, has_callback, index, results, render_calls, gen_error>>
    /\ UNCHANGED <<csvVars, tmVars, rtVars, toolVars>>

\* lines 493-500: the layout of the orientation, or the ValueError reported
generate_get_layout ==
    /\ gen_pc = "lookup"
    /\ LET found == get_layout(gen_photos[index].orientation)
       IN  IF found.raised
           THEN /\ Report([kind |-> "No template", err |-> found.error])
                /\ gen_pc' = "loop"
                /\ DownloadLocalsCleared
                /\ UNCHANGED layout
           ELSE /\ layout' = found.value
                /\ Report([kind |-> "Rendering", index |-> index,
                           orientation |-> OrientationValue(gen_photos[index].orientation)])
                /\ gen_pc' = "render"
                /\ UNCHANGED dlVars
    /\ UNCHANGED <<gen_photos, has_callback, index, results, render_calls, gen_error>>
    /\ UNCHANGED <<csvVars, tmVars, rtVars, toolVars>>

\* line 501: an exception of render is caught by nothing
generate_render ==
    /\ gen_pc = "render"
    /\ render_calls' = Append(render_calls, gen_photos[index].sequence)
    /\ \E template_exists \in BOOLEAN :
          LET error == render(layout, dl_body, template_exists)
          IN  IF error # <<>>
              THEN /\ gen_pc' = "raised"
                   /\ gen_error' = error
              ELSE /\ gen_pc' = "save"
                   /\ UNCHANGED gen_error
    /\ UNCHANGED <<gen_photos, has_callback, index, layout, results, progress>>
    /\ UNCHANGED <<csvVars, dlVars, tmVars, rtVars, toolVars>>

\* a save that puts the new path first
generate_save_prepends ==
    /\ gen_pc = "save"
    /\ results' = <<OutputPath(gen_photos[index])>> \o results
    /\ Report([kind |-> "Saved", name |-> Tail(OutputPath(gen_photos[index]))])
    /\ gen_pc' = "loop"
    /\ DownloadLocalsCleared
    /\ UNCHANGED <<gen_photos, has_callback, index, layout, render_calls, gen_error>>
    /\ UNCHANGED <<csvVars, tmVars, rtVars, toolVars>>

\* lines 502-507: the file is saved, its path appended, "Saved" reported
generate_save ==
    /\ gen_pc = "save"
    /\ results' = Append(results, OutputPath(gen_photos[index]))
    /\ Report([kind |-> "Saved", name |-> Tail(OutputPath(gen_photos[index]))])
    /\ gen_pc' = "loop"
    /\ DownloadLocalsCleared
    /\ UNCHANGED <<gen_photos, has_callback, index, layout, render_calls, gen_error>>
    /\ UNCHANGED <<csvVars, tmVars, rtVars, toolVars>>

\* line 508
generate_return ==
    /\ gen_pc = "loop"
    /\ index = Len(gen_photos)
    /\ gen_pc' = "returned"
    /\ UNCHANGED <<gen_photos, has_callback, index, layout, results, progress, render_calls,
                   gen_error>>
    /\ UNCHANGED <<csvVars, dlVars, tmVars, rtVars, toolVars>>

----------------------------------------------------------------------------
(* TemplateRenderer._wrap_text *)

\* characters of a text to wrap
MaxText == 5

WrapChars == {"i", "m", " "}

\* the widths of the field rectangles
FieldWidths == {0, 3, 5}

\* the advance width of a character in the font
CharWidth(c) == IF c = "m" THEN 3 ELSE 1

\* draw.textsize(text, font)[0]
RECURSIVE textsize(_)
textsize(s) == IF s = <<>> THEN 0 ELSE CharWidth(Head(s)) + textsize(Tail(s))

\* str.split(): the maximal runs without whitespace
RECURSIVE split_whitespace(_)
split_whitespace(s) ==
    LET ink == {i \in DOMAIN s : s[i] \notin Whitespace}
    IN  IF ink = {} THEN <<>>
        ELSE LET first == SetMin(ink)
                 gaps == {i \in first..Len(s) : s[i] \in Whitespace}
                 last == IF gaps = {} THEN Len(s) ELSE SetMin(gaps) - 1
             IN  <<SubSeq(s, first, last)>> \o split_whitespace(SubSeq(s, last + 1, Len(s)))

\* " ".join(parts)
RECURSIVE join(_)
join(parts) ==
    IF parts = <<>> THEN <<>>
    ELSE IF Len(parts) = 1 THEN parts[1]
    ELSE parts[1] \o <<" ">> \o join(Tail(parts))

InitWrapText ==
    /\ wt_pc = "call"
    /\ wt_text \in SeqsUpTo(WrapChars, MaxText)
    /\ max_width \in FieldWidths
    /\ words = <<>>
    /\ wt_next = 1
    /\ current = <<>>
    /\ lines = <<>>

IdleWrapText ==
    /\ wt_pc = "idle"
    /\ wt_text = <<>>
    /\ max_width = 0
    /\ words = <<>>
    /\ wt_next = 1
    /\ current = <<>>
    /\ lines = <<>>

\* lines 421-427: nothing to wrap gives no lines
wrap_begin ==
    /\ wt_pc = "call"
    /\ IF wt_text = <<>>
       THEN wt_pc' = "returned" /\ UNCHANGED words
       ELSE /\ words' = split_whitespace(wt_text)
            /\ wt_pc' = IF words' = <<>> THEN "returned" ELSE "loop"
    /\ UNCHANGED <<wt_text, max_width, wt_next, current, lines>>
    /\ UNCHANGED <<pipelineVars, drawVars, fontVars, fnVars, appVars>>

\* a loop body that measures the word alone
wrap_word_measures_word ==
    /\ wt_pc = "loop"
    /\ wt_next <= Len(words)
    /\ LET word == words[wt_next]
       IN  IF textsize(word) <= max_width \/ current = <<>>
           THEN current' = Append(current, word) /\ UNCHANGED lines
           ELSE lines' = Append(lines, join(current)) /\ current' = <<word>>
    /\ wt_next' = wt_next + 1
    /\ UNCHANGED <<wt_pc, wt_text, max_width, words>>
    /\ UNCHANGED <<pipelineVars, drawVars, fontVars, fnVars, appVars>>

\* lines 428-435: the word joins the current line if the line still fits or is empty
wrap_word ==
    /\ wt_pc = "loop"
    /\ wt_next <= Len(words)
    /\ LET word == words[wt_next]
           candidate == IF current # <<>> THEN join(Append(current, word)) ELSE word
       IN  IF textsize(candidate) <= max_width \/ current = <<>>
           THEN current' = Append(current, word) /\ UNCHANGED lines
           ELSE lines' = Append(lines, join(current)) /\ current' = <<word>>
    /\ wt_next' = wt_next + 1
    /\ UNCHANGED <<wt_pc, wt_text, max_width, words>>
    /\ UNCHANGED <<pipelineVars, drawVars, fontVars, fnVars, appVars>>

\* lines 436-438: the last line is flushed
wrap_return ==
    /\ wt_pc = "loop"
    /\ wt_next > Len(words)
    /\ lines' = IF current # <<>> THEN Append(lines, join(current)) ELSE lines
    /\ wt_pc' = "returned"
    /\ UNCHANGED <<wt_text, max_width, words, wt_next, current>>
    /\ UNCHANGED <<pipelineVars, drawVars, fontVars, fnVars, appVars>>

----------------------------------------------------------------------------
(* TemplateRenderer._draw_text: the loop over the wrapped lines *)

\* wrapped lines of one field
MaxLines == 3

\* the heights draw.textsize gives for a line
LineHeights == {4, 6}

\* rect.y, rect.height and style.line_spacing of the fields drawn
DrawnFields ==
    [y : {0, 10}, height : {5, 12, 20}, line_spacing : {0, 2}]

InitDrawText ==
    /\ dt_pc = "call"
    /\ dt_field \in DrawnFields
    /\ dt_heights \in SeqsUpTo(LineHeights, MaxLines)
    /\ dt_next = 1
    /\ dt_y = 0
    /\ dt_drawn = <<>>

IdleDrawText ==
    /\ dt_pc = "idle"
    /\ dt_field = [y |-> 0, height |-> 0, line_spacing |-> 0]
    /\ dt_heights = <<>>
    /\ dt_next = 1
    /\ dt_y = 0
    /\ dt_drawn = <<>>

\* lines 401-406: the text is wrapped and the cursor put at the top of the rect
draw_begin ==
    /\ dt_pc = "call"
    /\ dt_y' = dt_field.y
    /\ dt_pc' = "loop"
    /\ UNCHANGED <<dt_field, dt_heights, dt_next, dt_drawn>>
    /\ UNCHANGED <<pipelineVars, wrapVars, fontVars, fnVars, appVars>>

\* lines 407-417: the line is drawn at y, then y moves down and is compared
\* with the bottom edge
draw_line ==
    /\ dt_pc = "loop"
    /\ dt_next <= Len(dt_heights)
    /\ LET line_height == dt_heights[dt_next]
       IN  /\ dt_drawn' = Append(dt_drawn, [top |-> dt_y, bottom |-> dt_y + line_height])
           /\ dt_y' = dt_y + line_height + dt_field.line_spacing
    /\ dt_next' = dt_next + 1
    /\ dt_pc' = IF dt_y' > dt_field.y + dt_field.height THEN "returned" ELSE "loop"
    /\ UNCHANGED <<dt_field, dt_heights>>
    /\ UNCHANGED <<pipelineVars, wrapVars, fontVars, fnVars, appVars>>

\* line 407: no line is left
draw_return ==
    /\ dt_pc = "loop"
    /\ dt_next > Len(dt_heights)
    /\ dt_pc' = "returned"
    /\ UNCHANGED <<dt_field, dt_heights, dt_next, dt_y, dt_drawn>>
    /\ UNCHANGED <<pipelineVars, wrapVars, fontVars, fnVars, appVars>>

----------------------------------------------------------------------------
(* FontProvider *)

\* get calls on one FontProvider
MaxGets == 3

\* the styles asked for
FontStyles == [font_path : {"", "default", "fonts/Bold.ttf"}, font_size : {42, 24}]

\* font files ImageFont.truetype can open
InstalledFonts == {"arial.ttf", "fonts/Bold.ttf"}

\* line 360
FontKey(style) ==
    <<IF style.font_path # "" THEN style.font_path ELSE "default", style.font_size>>

\* lines 365-371: a new font object, the built-in one if the file cannot be opened
_load(style, serial) ==
    LET font_path == IF style.font_path # "" THEN style.font_path ELSE "arial.ttf"
    IN  [face |-> IF font_path \in InstalledFonts THEN font_path ELSE "<load_default>",
         size |-> IF font_path \in InstalledFonts THEN style.font_size ELSE 0,
         object |-> serial]

InitFontProvider ==
    /\ _cache = <<>>
    /\ fp_loads = <<>>
    /\ fp_gets = <<>>

\* a get that loads whether or not the key is cached
get_reloads ==
    /\ Len(fp_gets) < MaxGets
    /\ \E style \in FontStyles :
          LET key == FontKey(style)
          IN  /\ _cache' = DictSet(_cache, key, _load(style, Len(fp_loads) + 1))
              /\ fp_loads' = Append(fp_loads, key)
              /\ fp_gets' = Append(fp_gets, [style |-> style, font |-> _cache'[key]])
    /\ UNCHANGED <<pipelineVars, wrapVars, drawVars, fnVars, appVars>>

\* lines 359-363
get ==
    /\ Len(fp_gets) < MaxGets
    /\ \E style \in FontStyles :
          LET key == FontKey(style)
          IN  /\ IF key \notin DOMAIN _cache
                 THEN /\ _cache' = DictSet(_cache, key, _load(style, Len(fp_loads) + 1))
                      /\ fp_loads' = Append(fp_loads, key)
                 ELSE UNCHANGED <<_cache, fp_loads>>
              /\ fp_gets' = Append(fp_gets, [style |-> style, font |-> _cache'[key]])
    /\ UNCHANGED <<pipelineVars, wrapVars, drawVars, fnVars, appVars>>

----------------------------------------------------------------------------
(* One evaluation of the output file name, and of Orientation.from_size *)

\* participant names and themes of a photo
PhotoNames ==
    {<<"J", "a", "n", "e", " ", "O", "'", "B", "r", "i", "e", "n", "!", "!">>,
     <<"A", "n", "n">>,
     <<" ", " ", "-", "-", "J", "o", "s", "é", " ", " ", "Q", ".", " ">>,
     <<>>,
     <<" ", "!", "?", "_", " ">>,
     [i \in 1..(SlugCap + 1) |-> IF i = SlugCap THEN " " ELSE "a"]}

PhotoThemes ==
    {<<"S", "u", "n", "s", "e", "t", " ", "/", " ", "H", "i", "l", "l", "s">>,
     <<"S", "e", "a">>,
     <<"A", "_", "b", "-", "C">>,
     <<"*", "*", "*">>,
     [i \in 1..(SlugCap + 2) |-> IF i % 2 = 0 THEN "Z" ELSE "9"]}

\* sequence numbers of a photo
PhotoSequences == {1, 7, 42, 123, 1000}

\* sides of an image, in pixels
MaxSide == 8

IdleFunction ==
    /\ fn_pc = "idle"
    /\ fn_args = <<>>
    /\ fn_value = <<>>

InitFileName ==
    /\ fn_pc = "call"
    /\ fn_args \in [sequence : PhotoSequences, participant_name : PhotoNames,
                    theme : PhotoThemes]
    /\ fn_value = <<>>

\* lines 502-503: the name of the file a photo is saved to
output_name ==
    /\ fn_pc = "call"
    /\ fn_args \in [sequence : PhotoSequences, participant_name : PhotoNames,
                    theme : PhotoThemes]
    /\ fn_value' = Tail(OutputPath(fn_args))
    /\ fn_pc' = "returned"
    /\ UNCHANGED fn_args
    /\ UNCHANGED <<pipelineVars, wrapVars, drawVars, fontVars, appVars>>

InitFromSize ==
    /\ fn_pc = "call"
    /\ fn_args \in [width : 1..MaxSide, height : 1..MaxSide]
    /\ fn_value = "None"

\* lines 349-350: the size of the opened image is classified
classify_size ==
    /\ fn_pc = "call"
    /\ fn_args \in [width : 1..MaxSide, height : 1..MaxSide]
    /\ fn_value' = from_size(fn_args.width, fn_args.height)
    /\ fn_pc' = "returned"
    /\ UNCHANGED fn_args
    /\ UNCHANGED <<pipelineVars, wrapVars, drawVars, fontVars, appVars>>

----------------------------------------------------------------------------
(* SnapshotApp._start_generation and the worker threads it starts *)

\* clicks on "Generate Posts"
MaxTriggers == 3

\* photos a worker's CSV file yields
MaxWorkerPhotos == 2

InitApp ==
    /\ app_ready \in [csv_path : BOOLEAN, layouts : SUBSET Orientations]
    /\ app_threads = <<>>
    /\ app_status = <<>>

IdleApp ==
    /\ app_ready = [csv_path |-> FALSE, layouts |-> {}]
    /\ app_threads = <<>>
    /\ app_status = <<>>

\* self.after(0, update) of _on_generation_finished
Finish(t, message) ==
    /\ app_threads' = [app_threads EXCEPT ![t] = [pc |-> "finished", left |-> 0]]
    /\ app_status' = Append(app_status, message)
    /\ UNCHANGED app_ready

\* lines 975-991 and 1013: after the two checks a new daemon thread is started
_start_generation ==
    /\ Len(app_threads) < MaxTriggers
    /\ IF app_ready.csv_path /\ app_ready.layouts = Orientations
       THEN app_threads' = Append(app_threads, [pc |-> "read", left |-> 0])
       ELSE UNCHANGED app_threads
    /\ UNCHANGED <<app_ready, app_status>>
    /\ UNCHANGED <<pipelineVars, wrapVars, drawVars, fontVars, fnVars>>

\* lines 993-1001: the worker reads the CSV file through self.repository
worker_read ==
    /\ \E t \in DOMAIN app_threads :
          /\ app_threads[t].pc = "read"
          /\ \/ Finish(t, "Failed to parse CSV")
             \/ Finish(t, "No photos found in CSV")
             \/ \E n \in 1..MaxWorkerPhotos :
                   /\ app_threads' = [app_threads EXCEPT ![t] = [pc |-> "generate", left |-> n]]
                   /\ UNCHANGED <<app_ready, app_status>>
    /\ UNCHANGED <<pipelineVars, wrapVars, drawVars, fontVars, fnVars>>

\* line 1007: self.generator.generate downloads and renders the next photo
worker_photo ==
    /\ \E t \in DOMAIN app_threads :
          /\ app_threads[t].pc = "generate"
          /\ app_threads[t].left > 0
          /\ \/ Finish(t, "Generation failed")
             \/ /\ app_threads' = [app_threads EXCEPT ![t].left = @ - 1]
                /\ UNCHANGED <<app_ready, app_status>>
    /\ UNCHANGED <<pipelineVars, wrapVars, drawVars, fontVars, fnVars>>

\* line 1011: generate returned
worker_done ==
    /\ \E t \in DOMAIN app_threads :
          /\ app_threads[t].pc = "generate"
          /\ app_threads[t].left = 0
          /\ Finish(t, "Done. Generated")
    /\ UNCHANGED <<pipelineVars, wrapVars, drawVars, fontVars, fnVars>>

\* the helpers, the function evaluations and the window at rest
IdleTools ==
    /\ IdleWrapText
    /\ IdleDrawText
    /\ InitFontProvider
    /\ IdleFunction
    /\ IdleApp

\* the batch pipeline at rest
IdlePipeline ==
    /\ IdleCsv
    /\ IdleDownload
    /\ IdleRoundTrip
    /\ InitTemplateManager
    /\ IdleGenerate

----------------------------------------------------------------------------
(* Specifications *)

\* ---- one call of read_submissions on a file

InitReadSubmissions ==
    /\ InitCsv
    /\ IdleTools
    /\ IdleDownload
    /\ IdleRoundTrip
    /\ InitTemplateManager
    /\ IdleGenerate

NextCsv ==
    \/ ReadMissingFile
    \/ PrepareHeader
    \/ ReadRow
    \/ ReturnPhotos

SpecCsv == InitReadSubmissions /\ [][NextCsv]_vars

\* ---- one call of download

InitDownload ==
    /\ IdleCsv
    /\ IdleTools
    /\ IdleRoundTrip
    /\ InitTemplateManager
    /\ IdleGenerate
    /\ session = Responses
    /\ dl_pc = "call"
    /\ dl_url \in Urls
    /\ destination_ok \in BOOLEAN
    /\ dl_requests = <<>>
    /\ dl_responses = <<>>
    /\ dl_response = NoResponse
    /\ dl_file_id = NoneStr
    /\ dl_result = NoPath
    /\ dl_body = "none"
    /\ dl_error = <<>>

NextDownload ==
    \/ download_empty_url
    \/ download_dispatch
    \/ _download_generic
    \/ _download_from_drive_first
    \/ _download_from_drive_confirm
    \/ _download_from_drive_finish

SpecDownload == InitDownload /\ [][NextDownload]_vars

\* ---- set_layout calls on one TemplateManager

InitRegistry ==
    /\ IdleCsv
    /\ IdleTools
    /\ IdleDownload
    /\ IdleRoundTrip
    /\ IdleGenerate
    /\ InitTemplateManager

NextRegistry == SetLayout

SpecRegistry == InitRegistry /\ [][NextRegistry]_vars

\* ---- a layout saved with to_dict and loaded with from_dict

InitSaveLoad ==
    /\ IdleCsv
    /\ IdleTools
    /\ IdleDownload
    /\ IdleGenerate
    /\ InitTemplateManager
    /\ InitRoundTrip

NextSaveLoad ==
    \/ SaveLayout
    \/ LoadLayout

SpecSaveLoad == InitSaveLoad /\ [][NextSaveLoad]_vars

\* ---- one call of generate, with its downloads

InitBatch ==
    /\ IdleCsv
    /\ IdleTools
    /\ IdleRoundTrip
    /\ \E calls \in BatchRegistrations :
          /\ tm_calls = calls
          /\ _layouts = LayoutsAfter(calls)
          /\ _sources = SourcesAfter(calls)
    /\ session = BatchResponses
    /\ dl_pc = "idle"
    /\ dl_url = EmptyUrl
    /\ destination_ok = TRUE
    /\ dl_requests = <<>>
    /\ dl_responses = <<>>
    /\ dl_response = NoResponse
    /\ dl_file_id = NoneStr
    /\ dl_result = NoPath
    /\ dl_body = "none"
    /\ dl_error = <<>>
    /\ InitGenerate

NextBatch ==
    \/ generate_begin
    \/ generate_next_photo
    \/ download_empty_url
    \/ download_dispatch
    \/ _download_generic
    \/ _download_from_drive_first
    \/ _download_from_drive_confirm
    \/ _download_from_drive_finish
    \/ generate_download_failed
    \/ generate_download_raises
    \/ generate_detect
    \/ generate_get_layout
    \/ generate_render
    \/ generate_save
    \/ generate_return

SpecBatch == InitBatch /\ [][NextBatch]_vars

\* ---- one call of _wrap_text

InitWrap ==
    /\ IdlePipeline
    /\ IdleDrawText
    /\ InitFontProvider
    /\ IdleFunction
    /\ IdleApp
    /\ InitWrapText

NextWrap ==
    \/ wrap_begin
    \/ wrap_word
    \/ wrap_return

SpecWrap == InitWrap /\ [][NextWrap]_vars

\* ---- the drawing loop of one call of _draw_text

InitDraw ==
    /\ IdlePipeline
    /\ IdleWrapText
    /\ InitFontProvider
    /\ IdleFunction
    /\ IdleApp
    /\ InitDrawText

NextDraw ==
    \/ draw_begin
    \/ draw_line
    \/ draw_return

SpecDraw == InitDraw /\ [][NextDraw]_vars

\* ---- get calls on one FontProvider

InitFonts ==
    /\ IdlePipeline
    /\ IdleWrapText
    /\ IdleDrawText
    /\ IdleFunction
    /\ IdleApp
    /\ InitFontProvider

NextFonts == get

SpecFonts == InitFonts /\ [][NextFonts]_vars

\* ---- the file name of one photo

InitSlug ==
    /\ IdlePipeline
    /\ IdleWrapText
    /\ IdleDrawText
    /\ InitFontProvider
    /\ IdleApp
    /\ InitFileName

NextSlug == output_name

SpecSlug == InitSlug /\ [][NextSlug]_vars

\* ---- the orientation of one image size

InitOrientation ==
    /\ IdlePipeline
    /\ IdleWrapText
    /\ IdleDrawText
    /\ InitFontProvider
    /\ IdleApp
    /\ InitFromSize

NextOrientation == classify_size

SpecOrientation == InitOrientation /\ [][NextOrientation]_vars

\* ---- clicks on "Generate Posts" in one window

InitWindow ==
    /\ IdlePipeline
    /\ IdleWrapText
    /\ IdleDrawText
    /\ InitFontProvider
    /\ IdleFunction
    /\ InitApp

NextWindow ==
    \/ _start_generation
    \/ worker_read
    \/ worker_photo
    \/ worker_done

SpecWindow == InitWindow /\ [][NextWindow]_vars

----------------------------------------------------------------------------
(* Properties of read_submissions *)

\* positions of s that hold neither whitespace nor a comma
InkAt(s) == {p \in DOMAIN s : s[p] \notin Whitespace \cup {","}}

\* the number of commas left of position p
CommasBefore(s, p) == Cardinality({q \in 1..(p - 1) : s[q] = ","})

\* a cell read from the table, None read as the empty text
CellText(c) == IF c = None THEN <<>> ELSE c

HasInk(c) == InkAt(CellText(c)) # {}

\* the comma-separated segments of a links cell that hold a link, left to right
LinkSegments(c) == {CommasBefore(CellText(c), p) : p \in InkAt(CellText(c))}

\* the link of segment j: from its first to its last inked character
LinkIn(c, j) ==
    LET s == CellText(c)
        at == {p \in InkAt(s) : CommasBefore(s, p) = j}
    IN  SubSeq(s, SetMin(at), SetMax(at))

RowName(row) == row["Full Name"]

RowTheme(row) == row["Theme  Name"]

RowLinks(row) == row["Submit your view (Photo Upload)"]

\* the row takes part in sequencing
Contributes(row) ==
    /\ HasInk(RowName(row))
    /\ HasInk(RowTheme(row))
    /\ LinkSegments(RowLinks(row)) # {}

\* <<row number, link>> of every link of rows 1..n, by row and then by segment
RECURSIVE SegmentsInOrder(_, _, _)
SegmentsInOrder(c, n, S) ==
    IF S = {} THEN <<>>
    ELSE <<[row |-> n, url |-> LinkIn(c, SetMin(S))]>>
             \o SegmentsInOrder(c, n, S \ {SetMin(S)})

RECURSIVE ExpectedLinks(_, _)
ExpectedLinks(rows, n) ==
    IF n = 0 THEN <<>>
    ELSE ExpectedLinks(rows, n - 1)
             \o (IF HasInk(RowName(rows[n])) /\ HasInk(RowTheme(rows[n]))
                 THEN SegmentsInOrder(RowLinks(rows[n]), n, LinkSegments(RowLinks(rows[n])))
                 ELSE <<>>)

\* C1: with the four columns present, the photos read so far are exactly the
\* links of the contributing rows read so far, one photo per non-empty trimmed
\* link, in row order and then link order, and photo k carries sequence k; the
\* list returned is this list for the whole file.
C1_OnePhotoPerLinkInOrder ==
    rs_pc \in {"rows", "returned"} =>
        LET expected == ExpectedLinks(csv_file.rows, rows_read)
        IN  /\ Len(photos) = Len(expected)
            /\ rs_pc = "returned" => rows_read = Len(csv_file.rows)
            /\ \A k \in DOMAIN photos :
                  /\ photos[k].sequence = k
                  /\ photos[k].url = expected[k].url
                  /\ photos[k].submission_index = expected[k].row

C1_Witness ==
    /\ rs_pc = "returned"
    /\ Len(csv_file.rows) = 2
    /\ Len(photos) = 5
    /\ photos[2].url = <<"v", " ", "w">>
    /\ photos[3].submission_index = 1
    /\ photos[4].submission_index = 2
    /\ photos[5].sequence = 5

\* the list read_submissions builds from rows, as <<sequence, url>> pairs
RECURSIVE ReadAll(_, _, _, _)
ReadAll(rows, map, n, seq) ==
    IF n > Len(rows) THEN <<>>
    ELSE LET new == RowPhotos(rows[n], map, n, seq)
         IN  [k \in DOMAIN new |-> <<new[k].sequence, new[k].url>>]
                 \o ReadAll(rows, map, n + 1, seq + Len(new))

Without(rows, i) == SubSeq(rows, 1, i - 1) \o SubSeq(rows, i + 1, Len(rows))

\* C2: reading a row whose trimmed name or theme is empty, or whose links cell
\* holds no link, appends nothing and leaves the sequence counter as it was;
\* the list returned numbers its photos as the same file without that row does.
C2_SkippedRowConsumesNothing ==
    /\ [][(rs_pc = "rows" /\ rows_read' = rows_read + 1
            /\ ~Contributes(csv_file.rows[rows_read + 1]))
          => (photos' = photos /\ sequence' = sequence)]_vars
    /\ [](rs_pc = "returned" =>
            \A i \in DOMAIN csv_file.rows :
                ~Contributes(csv_file.rows[i]) =>
                    [k \in DOMAIN photos |-> <<photos[k].sequence, photos[k].url>>]
                        = ReadAll(Without(csv_file.rows, i), _header_map, 1, 1))

C2_Witness ==
    /\ rs_pc = "returned"
    /\ Len(csv_file.rows) = 2
    /\ ~Contributes(csv_file.rows[1])
    /\ HasInk(RowLinks(csv_file.rows[1]))
    /\ Len(photos) = 2
    /\ photos[1].sequence = 1
    /\ photos[1].submission_index = 2

\* the required columns the header of the file lacks
AbsentColumns ==
    {l \in DOMAIN REQUIRED_KEYS :
        \A i \in DOMAIN csv_file.fieldnames : _normalize_key(csv_file.fieldnames[i]) # l}

\* C3: when a required column is absent from the header, read_submissions
\* raises the validation error with no row read and no photo built, its message
\* names exactly the absent columns, and it never returns a list.
C3_MissingColumnsAbort ==
    (csv_file.exists /\ AbsentColumns # {} /\ rs_pc # "start") =>
        /\ rs_pc = "raised"
        /\ Head(rs_error) = "ValueError"
        /\ Range(Tail(rs_error)) = AbsentColumns
        /\ Len(Tail(rs_error)) = Cardinality(AbsentColumns)
        /\ rows_read = 0
        /\ photos = <<>>

C3_Witness ==
    /\ rs_pc = "raised"
    /\ rs_error = <<"ValueError", "full name", "theme name">>
    /\ Len(csv_file.rows) = 2

----------------------------------------------------------------------------
(* Properties of generate *)

\* the iteration of photo j has ended and the loop went on
Finished(j) == j < index \/ (j = index /\ gen_pc \in {"loop", "returned"})

\* photo j was downloaded, matched to a layout, rendered and saved
Produced(j) ==
    /\ Finished(j)
    /\ gen_photos[j].local_path # NoPath
    /\ gen_photos[j].orientation \in DOMAIN _layouts

\* the output paths of the produced photos among 1..n, in input order
RECURSIVE ProducedPaths(_)
ProducedPaths(n) ==
    IF n = 0 THEN <<>>
    ELSE ProducedPaths(n - 1)
             \o (IF Produced(n) THEN <<OutputPath(gen_photos[n])>> ELSE <<>>)

\* the message after "Downloading (j)" is the failure message
FailureReportedFor(j) ==
    LET at == {p \in DOMAIN progress :
                  progress[p].kind = "Downloading" /\ progress[p].index = j}
    IN  /\ at # {}
        /\ \A p \in at : p < Len(progress) /\ progress[p + 1].kind = "Download failed"

\* the download of photo j has ended without a local file
DownloadFailed(j) ==
    /\ j \in 1..index
    /\ gen_photos[j].local_path = NoPath
    /\ ~(j = index /\ gen_pc = "download")

\* C4: the list generate holds, and returns, is exactly the output paths of the
\* photos downloaded, matched, rendered and saved, in input order; generate
\* returns only after the last photo; a photo whose download failed adds no
\* path, gets the failure message, and the loop goes on to the next photo.
C4_FailedDownloadSkipsOnlyThatPhoto ==
    /\ results = ProducedPaths(index)
    /\ gen_pc = "returned" => index = Len(gen_photos)
    /\ \A j \in 1..index :
          DownloadFailed(j) =>
              /\ OutputPath(gen_photos[j]) \notin Range(results)
              /\ Finished(j)
              /\ has_callback => FailureReportedFor(j)

\* What holds of the above: the same, for the downloads that failed with
\* PhotoDownloadError (an empty url always does).
DownloadErrorSkipsOnlyThatPhoto ==
    /\ results = ProducedPaths(index)
    /\ gen_pc = "returned" => index = Len(gen_photos)
    /\ \A j \in 1..index :
          /\ (Finished(j) /\ gen_photos[j].url = EmptyUrl) => gen_photos[j].local_path = NoPath
          /\ (Finished(j) /\ gen_photos[j].local_path = NoPath) =>
                /\ OutputPath(gen_photos[j]) \notin Range(results)
                /\ has_callback => FailureReportedFor(j)

SecondOfTwoSaved ==
    /\ gen_pc = "returned"
    /\ has_callback
    /\ Len(gen_photos) = 2
    /\ gen_photos[1].url = EmptyUrl
    /\ progress[2] = [kind |-> "Download failed", err |-> "Empty URL provided"]
    /\ results = <<OutputPath(gen_photos[2])>>

\* C5: an error scoped to one photo (a download error, a decode or IO error on
\* opening the downloaded file, a missing layout) never leaves generate.
C5_PerPhotoErrorsStayInside ==
    gen_pc = "raised" =>
        /\ Head(gen_error) # "PhotoDownloadError"
        /\ gen_error # <<"UnidentifiedImageError", "cannot identify image file">>
        /\ gen_error # <<"OSError", "image file is truncated">>
        /\ gen_error[2] # "No template configured for"

\* the photo whose events include position p of the log
PhotoAt(p) == Cardinality({q \in 1..p : progress[q].kind = "Downloading"})

\* the paths named by the "Saved" messages, in order
SavedPaths ==
    LET saved == SelectSeq(progress, LAMBDA m : m.kind = "Saved")
    IN  [i \in DOMAIN saved |-> <<"output_dir">> \o saved[i].name]

\* the photo a result is the output of
PhotoOf(path) == CHOOSE j \in DOMAIN gen_photos : OutputPath(gen_photos[j]) = path

\* C8: the messages come photo by photo in input order, and within a photo as
\* downloading, then (failure | no template | rendering, then saved); every
\* message that names a photo names the photo of its group; the results are the
\* saved outputs in that order, so they follow the input order.
C8_EventsAndResultsInInputOrder ==
    /\ \A p \in DOMAIN progress :
          LET m == progress[p]
              j == PhotoAt(p)
          IN  /\ j \in 1..index
              /\ m.kind = "Downloading" =>
                    /\ m.index = j
                    /\ m.url = gen_photos[j].url
                    /\ p > 1 => progress[p - 1].kind \in {"Saved", "Download failed", "No template"}
              /\ m.kind \in {"Download failed", "No template", "Rendering"} =>
                    progress[p - 1].kind = "Downloading"
              /\ m.kind = "Rendering" => m.index = j
              /\ m.kind = "Saved" =>
                    /\ progress[p - 1].kind = "Rendering"
                    /\ m.name = Tail(OutputPath(gen_photos[j]))
    /\ has_callback => results = SavedPaths
    /\ \A i \in DOMAIN results : \E j \in 1..index : results[i] = OutputPath(gen_photos[j])
    /\ \A a, b \in DOMAIN results : a < b => PhotoOf(results[a]) < PhotoOf(results[b])

C8_Witness ==
    /\ gen_pc = "returned"
    /\ has_callback
    /\ Len(results) = 2
    /\ [p \in DOMAIN progress |-> progress[p].kind] =
          <<"Downloading", "Rendering", "Saved", "Downloading", "Rendering", "Saved">>
    /\ gen_photos[1].orientation # gen_photos[2].orientation

----------------------------------------------------------------------------
(* Properties of download *)

Ended == dl_pc \in {"returned", "raised"}

OnDriveHost(url) == \E i \in DOMAIN url : url[i] = DRIVE_HOST

\* a file id can be read off the url
HasFileId(url) ==
    \E i \in 1..(Len(url) - 1) : url[i] \in {"id=", "/d/"} /\ url[i + 1] \in LongIds

\* the cookies of a response whose key starts with download_warning
WarningCookies(response) ==
    {i \in DOMAIN response.cookies : IsWarningKey(response.cookies[i].key)}

\* C6 as stated: on the drive path, a first response that carries a
\* download_warning cookie is followed by exactly one more GET, with confirm set
\* to that cookie's value, and the call succeeds when the second response does.
C6_AnyWarningCookieReplays ==
    (/\ Ended
     /\ OnDriveHost(dl_url) /\ HasFileId(dl_url)
     /\ dl_responses # <<>>
     /\ WarningCookies(dl_responses[1]) # {}) =>
        /\ Len(dl_requests) = 2
        /\ \E i \in WarningCookies(dl_responses[1]) :
              dl_requests[2].confirm = dl_responses[1].cookies[i].value
        /\ dl_responses[2].ok => (dl_pc = "returned" /\ dl_result # NoPath)

\* What holds of the above: when the first download_warning cookie of the first
\* response has a non-empty value, exactly two GETs are sent, the second the first one with
\* confirm set to that value, and the call returns a path whenever the second
\* response is successful, whatever the first response's flag.
NonEmptyTokenReplaysOnce ==
    (/\ Ended
     /\ OnDriveHost(dl_url) /\ HasFileId(dl_url)
     /\ dl_responses # <<>>
     /\ WarningCookies(dl_responses[1]) # {}
     /\ dl_responses[1].cookies[SetMin(WarningCookies(dl_responses[1]))].value # "") =>
        /\ Len(dl_requests) = 2
        /\ Len(dl_responses) = 2
        /\ dl_requests[1].url = DownloadUrl
        /\ dl_requests[1].confirm = NoneStr
        /\ dl_requests[2] =
              [dl_requests[1] EXCEPT
                  !.confirm = dl_responses[1].cookies[SetMin(WarningCookies(dl_responses[1]))].value]
        /\ dl_responses[2].ok => (dl_pc = "returned" /\ dl_result # NoPath)

ReplayedAfterFailedFirst ==
    /\ dl_pc = "returned"
    /\ Len(dl_requests) = 2
    /\ ~dl_responses[1].ok
    /\ Len(dl_responses[1].cookies) = 2
    /\ dl_requests[2].confirm = "t0k3n"
    /\ dl_requests[2].id = "0Bxyz_-_98765"

\* C7: with an empty url, an unreachable destination or a final response that
\* is not successful, download raises PhotoDownloadError and returns no path.
C7_FailuresAreDownloadErrors ==
    (/\ Ended
     /\ \/ dl_url = EmptyUrl
        \/ ~destination_ok
        \/ (dl_responses # <<>> /\ ~dl_responses[Len(dl_responses)].ok)) =>
        /\ dl_pc = "raised"
        /\ Head(dl_error) = "PhotoDownloadError"
        /\ dl_result = NoPath

----------------------------------------------------------------------------
(* Properties of TemplateManager *)

\* the set_layout calls made for an orientation
CallsFor(orientation) ==
    {i \in DOMAIN tm_calls : tm_calls[i][1].orientation = orientation}

\* C9: get_layout(o) is the layout of the latest set_layout call for o and
\* get_source_path(o) the source of that same call (None when it gave none);
\* get_layout(o) raises the not-configured error exactly when there was no such
\* call; calls for the other orientation change neither.
C9_RegistryHoldsLatestCall ==
    \A o \in Orientations :
        IF CallsFor(o) = {}
        THEN /\ get_layout(o).raised
             /\ get_layout(o).error =
                   <<"ValueError", "No template configured for", OrientationValue(o)>>
             /\ get_source_path(o) = None
        ELSE /\ ~get_layout(o).raised
             /\ get_layout(o).value = tm_calls[SetMax(CallsFor(o))][1]
             /\ get_source_path(o) = tm_calls[SetMax(CallsFor(o))][2]

C9_Witness ==
    /\ Len(tm_calls) = 3
    /\ tm_calls[1][1].orientation = "LANDSCAPE" /\ tm_calls[1][2] # None
    /\ tm_calls[2][1].orientation = "PORTRAIT"
    /\ tm_calls[3][1].orientation = "LANDSCAPE" /\ tm_calls[3][2] = None
    /\ tm_calls[3][1] # tm_calls[1][1]
    /\ get_source_path("LANDSCAPE") = None
    /\ get_source_path("PORTRAIT") = tm_calls[2][2]

----------------------------------------------------------------------------
(* Properties of TemplateLayout.to_dict / from_dict *)

\* C10: from_dict(layout.to_dict()) equals layout, field by field.
C10_RoundTripIsIdentity ==
    rt_pc = "loaded" => rt_loaded = rt_layout

----------------------------------------------------------------------------
(* Properties of _wrap_text *)

\* the positions of s where a whitespace-delimited word starts
WordStarts(s) ==
    {p \in DOMAIN s : s[p] \notin Whitespace /\ (p = 1 \/ s[p - 1] \in Whitespace)}

\* the position where the word that starts at p ends
WordEnd(s, p) ==
    SetMin({q \in p..Len(s) : q = Len(s) \/ s[q + 1] \in Whitespace})

\* the whitespace-delimited words of s, in order
DelimitedWords(s) ==
    [k \in 1..Cardinality(WordStarts(s)) |->
        LET p == CHOOSE q \in WordStarts(s) :
                     Cardinality({r \in WordStarts(s) : r <= q}) = k
        IN  SubSeq(s, p, WordEnd(s, p))]

\* the words of the first n of the returned lines, read in order
RECURSIVE WordsOfLines(_)
WordsOfLines(n) ==
    IF n = 0 THEN <<>> ELSE WordsOfLines(n - 1) \o DelimitedWords(lines[n])

\* C11: the words of the returned lines, read in order, are exactly the
\* whitespace-delimited words of the text, and a returned line is at most
\* max_width wide unless it is one word.
C11_WrapKeepsWordsAndWidth ==
    wt_pc = "returned" =>
        /\ WordsOfLines(Len(lines)) = DelimitedWords(wt_text)
        /\ \A i \in DOMAIN lines :
              \/ textsize(lines[i]) <= max_width
              \/ Len(DelimitedWords(lines[i])) = 1

C11_Witness ==
    /\ wt_pc = "returned"
    /\ wt_text = <<"m", "i", " ", " ", "i">>
    /\ max_width = 3
    /\ lines = << <<"m", "i">>, <<"i">> >>
    /\ textsize(lines[1]) > max_width

----------------------------------------------------------------------------
(* Properties of _draw_text *)

\* rect.y + rect.height
BottomEdge == dt_field.y + dt_field.height

\* C12: lines are dropped only once the cursor is past the bottom edge of the
\* rectangle, and no line handed to draw.text extends below that edge.
C12_NoLineBelowBottomEdge ==
    /\ (dt_pc = "returned" /\ Len(dt_drawn) < Len(dt_heights)) => dt_y > BottomEdge
    /\ \A i \in DOMAIN dt_drawn : dt_drawn[i].bottom <= BottomEdge

\* What holds of the above: the lines drawn are the first ones, each starts at
\* or above the bottom edge, and the rest is dropped only once the cursor is
\* past the edge.
DrawnLinesStartInsideTheBox ==
    /\ Len(dt_drawn) <= Len(dt_heights)
    /\ \A i \in DOMAIN dt_drawn :
          /\ dt_drawn[i].bottom - dt_drawn[i].top = dt_heights[i]
          /\ dt_drawn[i].top <= BottomEdge
    /\ (dt_pc = "returned" /\ Len(dt_drawn) < Len(dt_heights)) => dt_y > BottomEdge

LastLineCrossesTheEdge ==
    /\ dt_pc = "returned"
    /\ Len(dt_heights) = 3
    /\ Len(dt_drawn) = 2
    /\ dt_drawn[2].top < BottomEdge
    /\ dt_drawn[2].bottom > BottomEdge

----------------------------------------------------------------------------
(* Properties of the output file name *)

\* what position p of a text gives to its slug before the cap: a letter or digit
\* gives itself in lower case; the first character of a run of others gives one
\* hyphen if the run stands between two letters or digits; the rest gives nothing
SlugPiece(v, p) ==
    IF IsAlnum(v[p]) THEN <<LowerChar(v[p])>>
    ELSE IF /\ p > 1
            /\ IsAlnum(v[p - 1])
            /\ \E q \in (p + 1)..Len(v) : IsAlnum(v[q])
    THEN <<"-">>
    ELSE <<>>

RECURSIVE SlugPieces(_, _)
SlugPieces(v, n) == IF n = 0 THEN <<>> ELSE SlugPieces(v, n - 1) \o SlugPiece(v, n)

\* the slug the file name is to hold for a text
ExpectedSlug(v) ==
    LET whole == SlugPieces(v, Len(v))
    IN  IF whole = <<>> THEN <<"i", "t", "e", "m">>
        ELSE [i \in 1..(IF Len(whole) > 60 THEN 60 ELSE Len(whole)) |-> whole[i]]

\* the number a string of decimal digits denotes
RECURSIVE DigitsValue(_)
DigitsValue(d) ==
    IF d = <<>> THEN 0
    ELSE 10 * DigitsValue(SubSeq(d, 1, Len(d) - 1))
            + (CHOOSE n \in 0..9 : DigitChars[n + 1] = d[Len(d)])

JaneOBrien ==
    [sequence |-> 7,
     participant_name |-> <<"J", "a", "n", "e", " ", "O", "'", "B", "r", "i", "e", "n", "!", "!">>,
     theme |-> <<"S", "u", "n", "s", "e", "t", " ", "/", " ", "H", "i", "l", "l", "s">>]

\* C13: the file name is the sequence number padded with zeros to three
\* digits, "_", the slug of the name, "_", the slug of the theme, ".png"; a slug
\* is the letters and digits of the text in lower case with one hyphen for each
\* run of other characters between them, cut at 60 characters, or "item".
C13_FileNameIsPaddedNumberAndSlugs ==
    fn_pc = "returned" =>
        LET parts == split(fn_value, "_")
        IN  /\ Len(parts) = 3
            /\ Range(parts[1]) \subseteq Range(DigitChars)
            /\ DigitsValue(parts[1]) = fn_args.sequence
            /\ Len(parts[1]) >= 3
            /\ Len(parts[1]) > 3 => parts[1][1] # "0"
            /\ parts[2] = ExpectedSlug(fn_args.participant_name)
            /\ parts[3] = ExpectedSlug(fn_args.theme) \o <<".", "p", "n", "g">>
            /\ fn_args = JaneOBrien => fn_value = <<"0", "0", "7", "_", "j", "a", "n", "e", "-", "o", "-", "b", "r", "i", "e", "n", "_", "s", "u", "n", "s", "e", "t", "-", "h", "i", "l", "l", "s", ".", "p", "n", "g">>

C13_Witness ==
    /\ fn_pc = "returned"
    /\ fn_args = JaneOBrien
    /\ fn_value = <<"0", "0", "7", "_", "j", "a", "n", "e", "-", "o", "-", "b", "r", "i", "e", "n", "_", "s", "u", "n", "s", "e", "t", "-", "h", "i", "l", "l", "s", ".", "p", "n", "g">>

----------------------------------------------------------------------------
(* Properties of Orientation.from_size *)

\* C15: from_size answers landscape exactly when width >= height, equal sides
\* included, and portrait exactly when width < height; the answer depends on
\* the two sides only.
C15_LandscapeIffWidthAtLeastHeight ==
    fn_pc = "returned" =>
        /\ fn_value \in Orientations
        /\ fn_value = "LANDSCAPE" <=> fn_args.width >= fn_args.height
        /\ fn_value = "PORTRAIT" <=> fn_args.width < fn_args.height
        /\ \A w, h \in 1..MaxSide :
              (w = fn_args.width /\ h = fn_args.height) => from_size(w, h) = fn_value

C15_Witness ==
    /\ fn_pc = "returned"
    /\ fn_args.width = fn_args.height
    /\ fn_args.width = 3
    /\ fn_value = "LANDSCAPE"

----------------------------------------------------------------------------
(* Properties of FontProvider *)

\* the cache key of a style: the font path, or the default marker, and the size
KeyOf(style) ==
    <<IF style.font_path = "" THEN "default" ELSE style.font_path, style.font_size>>

\* the get calls made for a key
GetsFor(key) == {i \in DOMAIN fp_gets : KeyOf(fp_gets[i].style) = key}

\* the _load calls made for a key
LoadsFor(key) == {i \in DOMAIN fp_loads : fp_loads[i] = key}

AskedKeys == {KeyOf(fp_gets[i].style) : i \in DOMAIN fp_gets}

\* every key asked for was loaded once, is in the cache, and every get for it
\* returned the instance in the cache
LoadedOncePerKey ==
    /\ DOMAIN _cache = AskedKeys
    /\ \A key \in AskedKeys :
          /\ Cardinality(LoadsFor(key)) = 1
          /\ \A i \in GetsFor(key) : fp_gets[i].font = _cache[key]
    /\ Len(fp_loads) = Cardinality(AskedKeys)

\* a step neither removes nor replaces an entry of the cache
EntriesKept ==
    \A key \in DOMAIN _cache : key \in DOMAIN _cache' /\ _cache'[key] = _cache[key]

\* C14: over any sequence of get calls a font is loaded once per distinct key,
\* at the first get for it; every later get for the key returns that stored
\* instance; no get replaces or removes an entry.
C14_FontLoadedOncePerKey == [][EntriesKept]_vars /\ []LoadedOncePerKey

C14_Witness ==
    /\ Len(fp_gets) = 3
    /\ fp_gets[1].style = [font_path |-> "", font_size |-> 42]
    /\ fp_gets[2].style = [font_path |-> "fonts/Bold.ttf", font_size |-> 42]
    /\ fp_gets[3].style = [font_path |-> "default", font_size |-> 42]
    /\ fp_gets[3].font = fp_gets[1].font
    /\ fp_gets[2].font # fp_gets[1].font
    /\ Len(fp_loads) = 2

----------------------------------------------------------------------------
(* Properties of generate: the missing layout *)

\* photo j was downloaded and detected, and no layout is registered for its
\* orientation
LayoutMissing(j) ==
    /\ j \in 1..index
    /\ gen_photos[j].local_path # NoPath
    /\ gen_photos[j].orientation \in Orientations
    /\ gen_photos[j].orientation \notin DOMAIN _layouts

\* the messages sent for photo j, in order
EventsOf(j) ==
    SelectSeq([p \in DOMAIN progress |-> [at |-> p, message |-> progress[p]]],
              LAMBDA e : PhotoAt(e.at) = j)

\* C16: a photo with no layout for its detected orientation is never handed to
\* the renderer, gets no output path, and once its lookup is over has, after
\* its downloading message, the not-configured message and nothing else; the
\* loop goes on, and generate returns only after the last photo.
C16_MissingLayoutSkipsPhoto ==
    /\ \A j \in 1..index :
          LayoutMissing(j) =>
              /\ gen_photos[j].sequence \notin Range(render_calls)
              /\ OutputPath(gen_photos[j]) \notin Range(results)
              /\ j = index => gen_pc \in {"lookup", "loop", "returned"}
              /\ (has_callback /\ ~(j = index /\ gen_pc = "lookup")) =>
                    /\ Len(EventsOf(j)) = 2
                    /\ EventsOf(j)[1].message.kind = "Downloading"
                    /\ EventsOf(j)[2].message =
                          [kind |-> "No template",
                           err |-> <<"ValueError", "No template configured for",
                                     OrientationValue(gen_photos[j].orientation)>>]
    /\ gen_pc = "returned" => index = Len(gen_photos)

C16_Witness ==
    /\ gen_pc = "returned"
    /\ has_callback
    /\ Len(gen_photos) = 2
    /\ LayoutMissing(1)
    /\ [p \in DOMAIN progress |-> progress[p].kind] =
          <<"Downloading", "No template", "Downloading", "Rendering", "Saved">>
    /\ results = <<OutputPath(gen_photos[2])>>
    /\ render_calls = <<gen_photos[2].sequence>>

----------------------------------------------------------------------------
(* Properties of the window *)

\* the worker threads that have not finished
ActiveWorkers == {t \in DOMAIN app_threads : app_threads[t].pc # "finished"}

\* the workers inside self.generator.generate
Generating == {t \in DOMAIN app_threads : app_threads[t].pc = "generate"}

\* C17: at every moment at most one background worker is active, so no two
\* batches download or render at the same time.
C17_AtMostOneWorker ==
    /\ Cardinality(ActiveWorkers) <= 1
    /\ Cardinality(Generating) <= 1

----------------------------------------------------------------------------
(* Properties of generate: what it changes in a photo *)

\* a step keeps the six fields the repository filled in, sets local_path only
\* from unset to the path a finished download of this photo returned, and sets
\* orientation only from unset to what detection on that file gave
PhotoFieldsFrame ==
    /\ Len(gen_photos') = Len(gen_photos)
    /\ \A j \in DOMAIN gen_photos :
          LET before == gen_photos[j]
              after == gen_photos'[j]
          IN  /\ after.sequence = before.sequence
              /\ after.submission_index = before.submission_index
              /\ after.participant_name = before.participant_name
              /\ after.theme = before.theme
              /\ after.description = before.description
              /\ after.url = before.url
              /\ after.local_path # before.local_path =>
                    /\ before.local_path = NoPath
                    /\ j = index
                    /\ dl_pc = "returned"
                    /\ dl_url = before.url
                    /\ after.local_path = dl_result
                    /\ dl_result # NoPath
              /\ after.orientation # before.orientation =>
                    /\ before.orientation = "None"
                    /\ j = index
                    /\ after.local_path = dl_result
                    /\ after.orientation = from_size(ImageSize(dl_body).width,
                                                     ImageSize(dl_body).height)

\* a photo not reached yet, or whose download failed, has both fields unset;
\* an orientation is never set without a path
UnsetWithoutDownload ==
    \A j \in DOMAIN gen_photos :
        /\ j > index => gen_photos[j].local_path = NoPath
        /\ gen_photos[j].local_path = NoPath => gen_photos[j].orientation = "None"
        /\ (/\ has_callback
            /\ Len(EventsOf(j)) >= 2
            /\ EventsOf(j)[2].message.kind = "Download failed") =>
              gen_photos[j].local_path = NoPath
        /\ (j = index /\ gen_pc = "raised" /\ gen_error = <<"OSError", "mkdir">>) =>
              gen_photos[j].local_path = NoPath

\* C18: generate changes only local_path and orientation of a photo, each once,
\* local_path after the photo's download returned a path and orientation after
\* detection on that file; after a failed download both stay unset; the other
\* six fields never change.
C18_OnlyPathAndOrientationChange == [][PhotoFieldsFrame]_vars /\ []UnsetWithoutDownload

C18_Witness ==
    /\ gen_pc = "returned"
    /\ has_callback
    /\ Len(gen_photos) = 2
    /\ progress[2].kind = "Download failed"
    /\ gen_photos[1].local_path = NoPath
    /\ gen_photos[1].orientation = "None"
    /\ gen_photos[2].local_path # NoPath
    /\ gen_photos[2].orientation = "PORTRAIT"
    /\ gen_photos[2].url # EmptyUrl

----------------------------------------------------------------------------
(* Properties of download: the number of requests *)

\* the GET requests one call that reaches its path is to send, given whether
\* the first response of the drive path asks for a replay
RequestsSent(replay) ==
    /\ Len(dl_requests) <= 2
    /\ Len(dl_responses) = Len(dl_requests)
    /\ (dl_url = EmptyUrl \/ (OnDriveHost(dl_url) /\ ~HasFileId(dl_url))) =>
          Len(dl_requests) = 0
    /\ (destination_ok /\ dl_url # EmptyUrl /\ ~OnDriveHost(dl_url)) =>
          Len(dl_requests) = 1
    /\ (destination_ok /\ OnDriveHost(dl_url) /\ HasFileId(dl_url)) =>
          Len(dl_requests) = IF replay THEN 2 ELSE 1
    /\ (dl_responses # <<>> /\ ~dl_responses[Len(dl_responses)].ok) =>
          (dl_pc = "raised" /\ Head(dl_error) = "PhotoDownloadError")

\* C19: a call sends no request for an empty url or an unparseable drive id,
\* one on the generic path, and on the drive path one when the first response
\* carries no download_warning cookie and two when it carries one; a final
\* response that is not successful is raised at once.
C19_RequestsBoundedByWarningCookie ==
    Ended =>
        RequestsSent(dl_responses # <<>> /\ WarningCookies(dl_responses[1]) # {})

\* What holds of the above: the same, with the replay sent when the first
\* download_warning cookie of the first response has a non-empty value.
RequestsBoundedByToken ==
    Ended =>
        RequestsSent(/\ dl_responses # <<>>
                     /\ WarningCookies(dl_responses[1]) # {}
                     /\ dl_responses[1].cookies[SetMin(WarningCookies(dl_responses[1]))].value # "")

OneRequestDespiteWarningCookie ==
    /\ dl_pc = "returned"
    /\ OnDriveHost(dl_url)
    /\ Len(dl_requests) = 1
    /\ WarningCookies(dl_responses[1]) # {}

=============================================================================
